---- MODULE Spec2Model ----
(***************************************************************************)
(* A model of src/python/mt5_connector.py: one MT5Connector (the session   *)
(* of one account) with its request threads and its price_worker threads,  *)
(* the order retry loops of place_trade and close_trade, and the module    *)
(* level registry of connectors.                                           *)
(*                                                                         *)
(* Threads of the program are Python threads: a statement that reads or    *)
(* writes one shared dict is one step, and the steps of different threads  *)
(* interleave freely.                                                      *)
(***************************************************************************)
EXTENDS Integers, Sequences, FiniteSets, TLC

VARIABLES
    connected,             \* MT5Connector.connected
    shutdown_event,        \* MT5Connector.shutdown_event (is_set)
    executor_shutdown,     \* the ThreadPoolExecutor was shut down
    active_subscriptions,  \* dict symbol -> list of client ids
    price_threads,         \* dict symbol -> future (the worker's index)
    mt5_lock,              \* holder of MT5Connector.mt5_lock, or NoHolder
    call,                  \* request thread -> the call it is executing
    worker,                \* sequence of price_worker closures submitted
    callsLeft,             \* request thread -> calls it may still begin
    pollsLeft,             \* get_price calls the workers may still begin
    spawnsLeft,            \* workers that may still be submitted
    chan,                  \* history: symbol -> last quotes emitted to its room
    lastres,               \* history: symbol -> last successful get_price result
    excess,                \* history: symbol -> quotes emitted minus runs observed
    scen,                  \* history: progress of the two-subscriber scenario
    trade,                 \* the place_trade or close_trade call being executed
    connectors,            \* the registry: dict account_id -> connector
    connectors_lock,       \* holder of connectors_lock, or NoHolder
    inst,                  \* the MT5Connector objects created, in order of creation
    rcall,                 \* registry thread -> the call it is executing
    rcallsLeft,            \* registry thread -> calls it may still begin
    now,                   \* time.time(), in seconds since the start
    vol,                   \* the volume of an order request and what is made of it
    activity,              \* MT5Connector.last_activity and the threads in update_activity
    order_stops,           \* the stop-loss and take-profit of an order request
    mt5,                   \* the module MetaTrader5: the connection to the terminal
    streams                \* symbol -> its subscription and its task in the executor

streamVars == <<connected, shutdown_event, executor_shutdown, active_subscriptions,
                price_threads, mt5_lock, call, worker, callsLeft, pollsLeft,
                spawnsLeft, chan, lastres, excess, scen>>

\* what the operations of the session's streaming leave alone
regVars == <<connectors, connectors_lock, inst, rcall, rcallsLeft, now>>
otherVars == <<trade, regVars, vol, activity, order_stops, mt5, streams>>

vars == <<streamVars, trade, regVars, vol, activity, order_stops, mt5, streams>>

-----------------------------------------------------------------------------
(* Bounds of the exploration.                                              *)

MaxCalls == 3
MaxCalls2 == 1
MaxPolls == 2
MaxSpawn == 2
BreakerCalls == 2
BreakerPolls == 7
BreakerSpawn == 2
RestartCalls == 4
RestartPolls == 1
RestartSpawn == 2

Threads == {"t1", "t2"}
Symbols == {"EURUSD"}
Clients == {"c1", "c2"}
\* (bid, ask) pairs the terminal may report, in points
Quotes == {<<1, 2>>, <<1, 3>>}

-----------------------------------------------------------------------------
(* Constants of the program.                                               *)

max_workers == 5
max_errors == 5

NoHolder == <<>>
ThreadHolder(t) == <<"thread", t>>
WorkerHolder(w) == <<"worker", w>>
None == "None"

-----------------------------------------------------------------------------
(* Python dict helpers.                                                    *)

DictSet(d, k, v) == [x \in (DOMAIN d) \cup {k} |-> IF x = k THEN v ELSE d[x]]
DictDel(d, k) == [x \in (DOMAIN d) \ {k} |-> d[x]]
EmptyDict == [x \in {} |-> 0]
InList(l, c) == \E i \in 1..Len(l) : l[i] = c
\* list.remove(c): removes the first occurrence
RECURSIVE ListRemove(_, _)
ListRemove(l, c) ==
    IF l = <<>> THEN <<>>
    ELSE IF Head(l) = c THEN Tail(l)
    ELSE <<Head(l)>> \o ListRemove(Tail(l), c)

-----------------------------------------------------------------------------
(* The signature of a quote: f"{price_data['bid']}-{price_data['ask']}".   *)

Digit(d) == CASE d = 0 -> "0" [] d = 1 -> "1" [] d = 2 -> "2" [] d = 3 -> "3"
              [] d = 4 -> "4" [] d = 5 -> "5" [] d = 6 -> "6" [] d = 7 -> "7"
              [] d = 8 -> "8" [] d = 9 -> "9"
RECURSIVE FmtNat(_)
FmtNat(n) == IF n < 10 THEN Digit(n) ELSE FmtNat(n \div 10) \o Digit(n % 10)
Fmt(n) == IF n < 0 THEN "-" \o FmtNat(0 - n) ELSE FmtNat(n)
Signature(bid, ask) == Fmt(bid) \o "-" \o Fmt(ask)

-----------------------------------------------------------------------------
(* Request threads.                                                        *)

Idle == [op |-> "idle", pc |-> "-", sym |-> "-", cid |-> "-", fut |-> 0, scn |-> FALSE]
AllIdle == \A t \in Threads : call[t].op = "idle"

\* history: the call the scenario connect, subscribe c1, subscribe c2,
\* unsubscribe c1, unsubscribe c2 expects next; ScenOff once the calls made
\* on the session differ from it or overlap.
ScenOff == 0 - 1
ScenSym == CHOOSE s \in Symbols : TRUE
ScenExpects(op, s, c) ==
    \/ scen = 0 /\ op = "connect"
    \/ scen = 1 /\ op = "start" /\ s = ScenSym /\ c = "c1"
    \/ scen = 2 /\ op = "start" /\ s = ScenSym /\ c = "c2"
    \/ scen = 3 /\ op = "stop" /\ s = ScenSym /\ c = "c1"
    \/ scen = 4 /\ op = "stop" /\ s = ScenSym /\ c = "c2"

BeginCall(t, op, pc0, s, c) ==
    /\ call[t].op = "idle"
    /\ callsLeft[t] > 0
    /\ callsLeft' = [callsLeft EXCEPT ![t] = @ - 1]
    /\ LET inScen == AllIdle /\ ScenExpects(op, s, c)
       IN /\ call' = [call EXCEPT ![t] = [op |-> op, pc |-> pc0, sym |-> s, cid |-> c,
                                          fut |-> 0, scn |-> inScen]]
          /\ scen' = IF inScen THEN scen ELSE ScenOff

\* the call of thread t returns (or raises); ok: it did what the scenario needs
Return(t, ok) ==
    /\ call' = [call EXCEPT ![t] = Idle]
    /\ scen' = IF call[t].scn /\ scen # ScenOff
               THEN (IF ok THEN scen + 1 ELSE ScenOff)
               ELSE scen

Goto(t, pc1) ==
    /\ call' = [call EXCEPT ![t].pc = pc1]
    /\ scen' = scen

At(t, op, pc0) == call[t].op = op /\ call[t].pc = pc0

\* a lock that never makes its caller wait
LockIgnored(holder) == TRUE

\* threading.Lock: acquire succeeds once no thread holds the lock
LockFree(holder) == holder = NoHolder

-----------------------------------------------------------------------------
(* MT5Connector.connect                                                    *)

\* the return statement connect reaches: 1000, the login error, 1001, the
\* success, or 1002 when initialize or login raised
ConnectOutcomes == {"init_failed", "login_failed", "autotrading_disabled", "connected",
                    "exception"}

ConnectBegin(t) ==
    /\ BeginCall(t, "connect", "lock", "-", "-")
    /\ UNCHANGED <<connected, shutdown_event, executor_shutdown, active_subscriptions,
                   price_threads, mt5_lock, worker, pollsLeft, spawnsLeft, chan,
                   lastres, excess>>
    /\ UNCHANGED otherVars

ConnectLock(t) ==
    /\ At(t, "connect", "lock")
    /\ LockFree(mt5_lock)
    /\ mt5_lock' = ThreadHolder(t)
    /\ Goto(t, "body")
    /\ UNCHANGED <<connected, shutdown_event, executor_shutdown, active_subscriptions,
                   price_threads, worker, callsLeft, pollsLeft, spawnsLeft, chan,
                   lastres, excess>>
    /\ UNCHANGED otherVars

\* initialize, login, connected = True, shutdown_event.clear(), account_info
ConnectBody(t) ==
    /\ At(t, "connect", "body")
    /\ \E out \in ConnectOutcomes :
         /\ IF out \in {"autotrading_disabled", "connected"}
            THEN connected' = TRUE /\ shutdown_event' = FALSE
            ELSE UNCHANGED <<connected, shutdown_event>>
         /\ Goto(t, out)
    /\ mt5_lock' = NoHolder
    /\ UNCHANGED <<executor_shutdown, active_subscriptions, price_threads, worker,
                   callsLeft, pollsLeft, spawnsLeft, chan, lastres, excess>>
    /\ UNCHANGED otherVars

\* the caller has the result of connect
ConnectReturn(t) ==
    /\ call[t].op = "connect" /\ call[t].pc \in ConnectOutcomes
    /\ Return(t, call[t].pc = "connected")
    /\ UNCHANGED <<connected, shutdown_event, executor_shutdown, active_subscriptions,
                   price_threads, mt5_lock, worker, callsLeft, pollsLeft, spawnsLeft,
                   chan, lastres, excess>>
    /\ UNCHANGED otherVars

-----------------------------------------------------------------------------
(* MT5Connector.start_price_stream                                         *)

PendingSpawns ==
    Cardinality({t \in Threads : call[t].op = "start"
                                 /\ call[t].pc \in {"check", "setsubs", "submit"}})

StartBegin(t) ==
    /\ spawnsLeft > PendingSpawns
    /\ \E s \in Symbols, c \in Clients : BeginCall(t, "start", "check", s, c)
    /\ UNCHANGED <<connected, shutdown_event, executor_shutdown, active_subscriptions,
                   price_threads, mt5_lock, worker, pollsLeft, spawnsLeft, chan,
                   lastres, excess>>
    /\ UNCHANGED otherVars

\* if symbol in self.price_threads:
StartCheck(t) ==
    /\ At(t, "start", "check")
    /\ Goto(t, IF call[t].sym \in DOMAIN price_threads THEN "append" ELSE "setsubs")
    /\ UNCHANGED <<connected, shutdown_event, executor_shutdown, active_subscriptions,
                   price_threads, mt5_lock, worker, callsLeft, pollsLeft, spawnsLeft,
                   chan, lastres, excess>>
    /\ UNCHANGED otherVars

\* if client_id not in ...get(symbol, []): ...setdefault(symbol, []).append(client_id)
StartAppend(t) ==
    /\ At(t, "start", "append")
    /\ LET s == call[t].sym
           c == call[t].cid
           cur == IF s \in DOMAIN active_subscriptions THEN active_subscriptions[s] ELSE <<>>
       IN active_subscriptions' =
            IF InList(cur, c) THEN active_subscriptions
            ELSE DictSet(active_subscriptions, s, Append(cur, c))
    /\ Return(t, TRUE)
    /\ UNCHANGED <<connected, shutdown_event, executor_shutdown, price_threads, mt5_lock,
                   worker, callsLeft, pollsLeft, spawnsLeft, chan, lastres, excess>>
    /\ UNCHANGED otherVars

\* self.active_subscriptions[symbol] = [client_id]
\* (a stream of the symbol starts: the histories of its room start afresh)
StartSetSubs(t) ==
    /\ At(t, "start", "setsubs")
    /\ LET s == call[t].sym
       IN /\ active_subscriptions' = DictSet(active_subscriptions, s, <<call[t].cid>>)
          /\ chan' = [chan EXCEPT ![s] = <<>>]
          /\ lastres' = [lastres EXCEPT ![s] = <<>>]
          /\ excess' = [excess EXCEPT ![s] = 0]
    /\ Goto(t, "submit")
    /\ UNCHANGED <<connected, shutdown_event, executor_shutdown, price_threads, mt5_lock,
                   worker, callsLeft, pollsLeft, spawnsLeft>>
    /\ UNCHANGED otherVars

NoResult == [ok |-> FALSE, code |-> 0, quote |-> <<>>]
NewWorker(s) == [pc |-> "queued", sym |-> s, last_price |-> None, error_count |-> 0,
                 res |-> NoResult, consec |-> 0, tripped |-> FALSE]

\* future = self.executor.submit(price_worker): raises RuntimeError once the
\* executor was shut down, and start_price_stream has no handler for it
StartSubmit(t) ==
    /\ At(t, "start", "submit")
    /\ IF executor_shutdown
       THEN /\ Return(t, FALSE)
            /\ UNCHANGED <<worker, spawnsLeft>>
       ELSE /\ worker' = Append(worker, NewWorker(call[t].sym))
            /\ spawnsLeft' = spawnsLeft - 1
            /\ call' = [call EXCEPT ![t].pc = "assign", ![t].fut = Len(worker) + 1]
            /\ scen' = scen
    /\ UNCHANGED <<connected, shutdown_event, executor_shutdown, active_subscriptions,
                   price_threads, mt5_lock, callsLeft, pollsLeft, chan, lastres, excess>>
    /\ UNCHANGED otherVars

\* self.price_threads[symbol] = future
StartAssign(t) ==
    /\ At(t, "start", "assign")
    /\ price_threads' = DictSet(price_threads, call[t].sym, call[t].fut)
    /\ Return(t, TRUE)
    /\ UNCHANGED <<connected, shutdown_event, executor_shutdown, active_subscriptions,
                   mt5_lock, worker, callsLeft, pollsLeft, spawnsLeft, chan, lastres,
                   excess>>
    /\ UNCHANGED otherVars

-----------------------------------------------------------------------------
(* MT5Connector.stop_price_stream, called with a client id                 *)

StopBegin(t) ==
    /\ \E s \in Symbols, c \in Clients : BeginCall(t, "stop", "check", s, c)
    /\ UNCHANGED <<connected, shutdown_event, executor_shutdown, active_subscriptions,
                   price_threads, mt5_lock, worker, pollsLeft, spawnsLeft, chan,
                   lastres, excess>>
    /\ UNCHANGED otherVars

\* if symbol not in self.active_subscriptions: return
StopCheck(t) ==
    /\ At(t, "stop", "check")
    /\ IF call[t].sym \in DOMAIN active_subscriptions
       THEN Goto(t, "remove")
       ELSE Return(t, TRUE)
    /\ UNCHANGED <<connected, shutdown_event, executor_shutdown, active_subscriptions,
                   price_threads, mt5_lock, worker, callsLeft, pollsLeft, spawnsLeft,
                   chan, lastres, excess>>
    /\ UNCHANGED otherVars

\* if client_id in self.active_subscriptions[symbol]: ....remove(client_id)
\* (a KeyError is caught by the handler of stop_price_stream, which returns)
StopRemove(t) ==
    /\ At(t, "stop", "remove")
    /\ LET s == call[t].sym
       IN IF s \in DOMAIN active_subscriptions
          THEN /\ active_subscriptions' =
                    [active_subscriptions EXCEPT ![s] = ListRemove(@, call[t].cid)]
               /\ Goto(t, "empty")
          ELSE /\ UNCHANGED active_subscriptions
               /\ Return(t, TRUE)
    /\ UNCHANGED <<connected, shutdown_event, executor_shutdown, price_threads, mt5_lock,
                   worker, callsLeft, pollsLeft, spawnsLeft, chan, lastres, excess>>
    /\ UNCHANGED otherVars

\* if not self.active_subscriptions[symbol]: del self.active_subscriptions[symbol]
StopEmpty(t) ==
    /\ At(t, "stop", "empty")
    /\ LET s == call[t].sym
       IN IF s \in DOMAIN active_subscriptions
          THEN IF active_subscriptions[s] = <<>>
               THEN /\ active_subscriptions' = DictDel(active_subscriptions, s)
                    /\ Goto(t, "delthread")
               ELSE /\ UNCHANGED active_subscriptions
                    /\ Return(t, TRUE)
          ELSE /\ UNCHANGED active_subscriptions
               /\ Return(t, TRUE)
    /\ UNCHANGED <<connected, shutdown_event, executor_shutdown, price_threads, mt5_lock,
                   worker, callsLeft, pollsLeft, spawnsLeft, chan, lastres, excess>>
    /\ UNCHANGED otherVars

\* if symbol in self.price_threads: del self.price_threads[symbol]
StopDelThread(t) ==
    /\ At(t, "stop", "delthread")
    /\ price_threads' = DictDel(price_threads, call[t].sym)
    /\ Return(t, TRUE)
    /\ UNCHANGED <<connected, shutdown_event, executor_shutdown, active_subscriptions,
                   mt5_lock, worker, callsLeft, pollsLeft, spawnsLeft, chan, lastres,
                   excess>>
    /\ UNCHANGED otherVars

-----------------------------------------------------------------------------
(* MT5Connector.disconnect                                                 *)

WorkerIds == 1..Len(worker)
Exited(w) == worker[w].pc = "done"

DisconnectBegin(t) ==
    /\ BeginCall(t, "disconnect", "lock", "-", "-")
    /\ UNCHANGED <<connected, shutdown_event, executor_shutdown, active_subscriptions,
                   price_threads, mt5_lock, worker, pollsLeft, spawnsLeft, chan,
                   lastres, excess>>
    /\ UNCHANGED otherVars

DisconnectLock(t) ==
    /\ At(t, "disconnect", "lock")
    /\ LockFree(mt5_lock)
    /\ mt5_lock' = ThreadHolder(t)
    /\ Goto(t, "flags")
    /\ UNCHANGED <<connected, shutdown_event, executor_shutdown, active_subscriptions,
                   price_threads, worker, callsLeft, pollsLeft, spawnsLeft, chan,
                   lastres, excess>>
    /\ UNCHANGED otherVars

\* self.connected = False; self.shutdown_event.set()
DisconnectFlags(t) ==
    /\ At(t, "disconnect", "flags")
    /\ connected' = FALSE
    /\ shutdown_event' = TRUE
    /\ Goto(t, "clear")
    /\ UNCHANGED <<executor_shutdown, active_subscriptions, price_threads, mt5_lock,
                   worker, callsLeft, pollsLeft, spawnsLeft, chan, lastres, excess>>
    /\ UNCHANGED otherVars

\* price_threads.clear() forgotten
DisconnectClearSubsOnly(t) ==
    /\ At(t, "disconnect", "clear")
    /\ active_subscriptions' = EmptyDict
    /\ Goto(t, "shutdown")
    /\ UNCHANGED <<connected, shutdown_event, executor_shutdown, mt5_lock, worker,
                   callsLeft, pollsLeft, spawnsLeft, chan, lastres, excess,
                   price_threads>>
    /\ UNCHANGED otherVars

\* stop_price_stream(symbol) for every key of price_threads, then both dicts cleared
DisconnectClear(t) ==
    /\ At(t, "disconnect", "clear")
    /\ active_subscriptions' = EmptyDict
    /\ price_threads' = EmptyDict
    /\ Goto(t, "shutdown")
    /\ UNCHANGED <<connected, shutdown_event, executor_shutdown, mt5_lock, worker,
                   callsLeft, pollsLeft, spawnsLeft, chan, lastres, excess>>
    /\ UNCHANGED otherVars

\* self.executor.shutdown(wait=True): no new work is accepted ...
DisconnectShutdown(t) ==
    /\ At(t, "disconnect", "shutdown")
    /\ executor_shutdown' = TRUE
    /\ Goto(t, "join")
    /\ UNCHANGED <<connected, shutdown_event, active_subscriptions, price_threads,
                   mt5_lock, worker, callsLeft, pollsLeft, spawnsLeft, chan, lastres,
                   excess>>
    /\ UNCHANGED otherVars

\* the return statement disconnect reaches: the success, or 1003 when
\* mt5.shutdown() raised
DisconnectOutcomes == {"disconnected", "exception"}

\* ... and the call blocks until every submitted price_worker has finished;
\* then mt5.shutdown(), and the lock is released on the way out
DisconnectJoin(t) ==
    /\ At(t, "disconnect", "join")
    /\ \A w \in WorkerIds : Exited(w)
    /\ mt5_lock' = NoHolder
    /\ \E out \in DisconnectOutcomes : Goto(t, out)
    /\ UNCHANGED <<connected, shutdown_event, executor_shutdown, active_subscriptions,
                   price_threads, worker, callsLeft, pollsLeft, spawnsLeft, chan,
                   lastres, excess>>
    /\ UNCHANGED otherVars

\* the caller has the result of disconnect
DisconnectReturn(t) ==
    /\ call[t].op = "disconnect" /\ call[t].pc \in DisconnectOutcomes
    /\ Return(t, call[t].pc = "disconnected")
    /\ UNCHANGED <<connected, shutdown_event, executor_shutdown, active_subscriptions,
                   price_threads, mt5_lock, worker, callsLeft, pollsLeft, spawnsLeft,
                   chan, lastres, excess>>
    /\ UNCHANGED otherVars

-----------------------------------------------------------------------------
(* price_worker, the closure start_price_stream submits to the executor    *)

WorkerUnchanged == UNCHANGED <<connected, shutdown_event, executor_shutdown, call,
                               callsLeft, spawnsLeft, scen, otherVars>>

\* threads of the pool that are running a price_worker
Running == {w \in WorkerIds : worker[w].pc \notin {"queued", "done"}}

\* a pool thread takes the work item from the executor's queue
WorkerStart(w) ==
    /\ worker[w].pc = "queued"
    /\ Cardinality(Running) < max_workers
    /\ worker' = [worker EXCEPT ![w].pc = "check"]
    /\ WorkerUnchanged
    /\ UNCHANGED <<active_subscriptions, price_threads, mt5_lock, pollsLeft, chan,
                   lastres, excess>>

\* while symbol in self.price_threads and self.connected
\*       and not self.shutdown_event.is_set():
LoopCondition(s) == s \in DOMAIN price_threads /\ connected /\ ~shutdown_event

WorkerCheck(w) ==
    /\ worker[w].pc = "check"
    /\ worker' = [worker EXCEPT ![w].pc =
                     IF LoopCondition(worker[w].sym) THEN "get_price" ELSE "cleanup1"]
    /\ WorkerUnchanged
    /\ UNCHANGED <<active_subscriptions, price_threads, mt5_lock, pollsLeft, chan,
                   lastres, excess>>

GetPriceErrors == {1006, 1009, 1010}
Failure(c) == [ok |-> FALSE, code |-> c, quote |-> <<>>]
Success(q) == [ok |-> TRUE, code |-> 0, quote |-> q]

\* get_price: if not self.connected: return False, {"code": 1004, ...}
WorkerGetPrice(w) ==
    /\ worker[w].pc = "get_price"
    /\ pollsLeft > 0
    /\ pollsLeft' = pollsLeft - 1
    /\ worker' = IF connected
                 THEN [worker EXCEPT ![w].pc = "gp_lock"]
                 ELSE [worker EXCEPT ![w].pc = "result", ![w].res = Failure(1004)]
    /\ WorkerUnchanged
    /\ UNCHANGED <<active_subscriptions, price_threads, mt5_lock, chan, lastres, excess>>

\* get_price: with self.mt5_lock:
WorkerGetPriceLock(w) ==
    /\ worker[w].pc = "gp_lock"
    /\ LockFree(mt5_lock)
    /\ mt5_lock' = WorkerHolder(w)
    /\ worker' = [worker EXCEPT ![w].pc = "gp_call"]
    /\ WorkerUnchanged
    /\ UNCHANGED <<active_subscriptions, price_threads, pollsLeft, chan, lastres, excess>>

\* get_price: symbol_select, symbol_info_tick (or the last bar), symbol_info;
\* the terminal decides the outcome, the lock is released on return
WorkerGetPriceCall(w) ==
    /\ worker[w].pc = "gp_call"
    /\ \E r \in {Failure(c) : c \in GetPriceErrors} \cup {Success(q) : q \in Quotes} :
         worker' = [worker EXCEPT ![w].pc = "result", ![w].res = r]
    /\ mt5_lock' = NoHolder
    /\ WorkerUnchanged
    /\ UNCHANGED <<active_subscriptions, price_threads, pollsLeft, chan, lastres, excess>>

\* the limit tested one failure late
BreakerTripsLate(error_count) == error_count > max_errors

\* if error_count >= max_errors: break
BreakerTrips(error_count) == error_count >= max_errors

LastTwo(l) == IF Len(l) > 2 THEN SubSeq(l, Len(l) - 1, Len(l)) ELSE l

\* the body of the loop after get_price returned
WorkerResult(w) ==
    /\ worker[w].pc = "result"
    /\ LET s == worker[w].sym
           r == worker[w].res
       IN IF r.ok
          THEN LET current_price == Signature(r.quote[1], r.quote[2])
                   emits == current_price # worker[w].last_price
                   newrun == r.quote # lastres[s]
               IN /\ worker' = [worker EXCEPT
                                  ![w].pc = "check",
                                  ![w].last_price = IF emits THEN current_price ELSE @,
                                  ![w].error_count = IF emits THEN 0 ELSE @,
                                  ![w].consec = 0]
                  /\ chan' = IF emits
                             THEN [chan EXCEPT ![s] = LastTwo(Append(@, r.quote))]
                             ELSE chan
                  /\ lastres' = [lastres EXCEPT ![s] = r.quote]
                  /\ excess' = [excess EXCEPT ![s] =
                                  @ + (IF emits THEN 1 ELSE 0) - (IF newrun THEN 1 ELSE 0)]
          ELSE LET n == worker[w].error_count + 1
               IN /\ worker' = [worker EXCEPT
                                  ![w].pc = IF BreakerTrips(n) THEN "cleanup1" ELSE "check",
                                  ![w].error_count = n,
                                  ![w].consec = @ + 1,
                                  ![w].tripped = BreakerTrips(n)]
                  /\ UNCHANGED <<chan, lastres, excess>>
    /\ WorkerUnchanged
    /\ UNCHANGED <<active_subscriptions, price_threads, mt5_lock, pollsLeft>>

\* if symbol in self.price_threads: del self.price_threads[symbol]
WorkerCleanupThreads(w) ==
    /\ worker[w].pc = "cleanup1"
    /\ price_threads' = DictDel(price_threads, worker[w].sym)
    /\ worker' = [worker EXCEPT ![w].pc = "cleanup2"]
    /\ WorkerUnchanged
    /\ UNCHANGED <<active_subscriptions, mt5_lock, pollsLeft, chan, lastres, excess>>

\* if symbol in self.active_subscriptions: del self.active_subscriptions[symbol]
WorkerCleanupSubs(w) ==
    /\ worker[w].pc = "cleanup2"
    /\ active_subscriptions' = DictDel(active_subscriptions, worker[w].sym)
    /\ worker' = [worker EXCEPT ![w].pc = "done"]
    /\ WorkerUnchanged
    /\ UNCHANGED <<price_threads, mt5_lock, pollsLeft, chan, lastres, excess>>

-----------------------------------------------------------------------------
(* Order filling modes and the candidates of the retry loops.              *)

\* the values of the MetaTrader5 package
ORDER_FILLING_FOK == 0
ORDER_FILLING_IOC == 1
ORDER_FILLING_RETURN == 2

TRADE_RETCODE_REQUOTE == 10004
TRADE_RETCODE_REJECT == 10006
TRADE_RETCODE_DONE == 10009
TRADE_RETCODE_INVALID_VOLUME == 10014
TRADE_RETCODE_TRADE_DISABLED == 10017
TRADE_RETCODE_MARKET_CLOSED == 10018
TRADE_RETCODE_NO_MONEY == 10019
TRADE_RETCODE_INVALID_FILL == 10030
TRADE_RETCODE_CONNECTION == 10031
TRADE_RETCODE_ONLY_REAL == 10032

RECURSIVE BitAnd(_, _)
BitAnd(a, b) ==
    IF a = 0 \/ b = 0 THEN 0
    ELSE (a % 2) * (b % 2) + 2 * BitAnd(a \div 2, b \div 2)

FillingMode(c, n) == [const |-> c, name |-> n]
\* if info.filling_mode & mode_constant:
Flagged(mask, m) == BitAnd(mask, m.const) # 0

\* the list left as it is
DedupByNameKeepsAll(modes, seen) == modes

\* seen = set(); [mode for mode in supported_modes
\*                if not (mode[1] in seen or seen.add(mode[1]))]
RECURSIVE DedupByName(_, _)
DedupByName(modes, seen) ==
    IF modes = <<>> THEN <<>>
    ELSE IF Head(modes).name \in seen THEN DedupByName(Tail(modes), seen)
    ELSE <<Head(modes)>> \o DedupByName(Tail(modes), seen \cup {Head(modes).name})

PlaceFillingModes == <<FillingMode(ORDER_FILLING_IOC, "IOC"),
                       FillingMode(ORDER_FILLING_FOK, "FOK"),
                       FillingMode(ORDER_FILLING_RETURN, "RETURN")>>

\* the default IOC tried after the flagged modes instead of before them
PlaceCandidatesFallbackLast(mask, filling_mode) ==
    LET supported == SelectSeq(PlaceFillingModes, LAMBDA m : Flagged(mask, m))
                     \o <<FillingMode(ORDER_FILLING_IOC, "IOC")>>
        requested == SelectSeq(PlaceFillingModes,
                               LAMBDA m : m.name = filling_mode
                                          /\ (Flagged(mask, m) \/ m.name = "IOC"))
        prioritized == IF requested # <<>> THEN <<Head(requested)>> \o supported
                       ELSE supported
    IN DedupByName(prioritized, {})

\* supported_modes of place_trade: IOC, then every flagged mode, the
\* requested mode inserted in front when it is flagged or is IOC, duplicates removed
PlaceCandidates(mask, filling_mode) ==
    LET supported == <<FillingMode(ORDER_FILLING_IOC, "IOC")>>
                     \o SelectSeq(PlaceFillingModes, LAMBDA m : Flagged(mask, m))
        requested == SelectSeq(PlaceFillingModes,
                               LAMBDA m : m.name = filling_mode
                                          /\ (Flagged(mask, m) \/ m.name = "IOC"))
        prioritized == IF requested # <<>> THEN <<Head(requested)>> \o supported
                       ELSE supported
    IN DedupByName(prioritized, {})

CloseFillingModes == <<FillingMode(ORDER_FILLING_FOK, "FOK"),
                       FillingMode(ORDER_FILLING_IOC, "IOC"),
                       FillingMode(ORDER_FILLING_RETURN, "Return")>>

\* supported_modes of close_trade: every flagged mode, IOC when none is
CloseCandidates(mask) ==
    LET supported == SelectSeq(CloseFillingModes, LAMBDA m : Flagged(mask, m))
    IN IF supported = <<>> THEN <<FillingMode(ORDER_FILLING_IOC, "IOC")>> ELSE supported

\* the shorter list of close_trade used in place_trade
PlaceStopsShort(retcode) ==
    retcode \in {TRADE_RETCODE_TRADE_DISABLED, TRADE_RETCODE_MARKET_CLOSED,
                 TRADE_RETCODE_INVALID_VOLUME}

\* the retcodes after which place_trade breaks out of its loop
PlaceStops(retcode) ==
    retcode \in {TRADE_RETCODE_NO_MONEY, TRADE_RETCODE_TRADE_DISABLED,
                 TRADE_RETCODE_MARKET_CLOSED, TRADE_RETCODE_INVALID_VOLUME,
                 TRADE_RETCODE_CONNECTION, TRADE_RETCODE_ONLY_REAL}

\* the retcodes after which close_trade breaks out of its loop
CloseStops(retcode) ==
    retcode \in {TRADE_RETCODE_TRADE_DISABLED, TRADE_RETCODE_MARKET_CLOSED,
                 TRADE_RETCODE_INVALID_VOLUME}

-----------------------------------------------------------------------------
(* MT5Connector.place_trade and MT5Connector.close_trade                   *)

\* instrument bitmasks and requested modes explored
MaxFillingMask == 7
FillingMasks == 0..MaxFillingMask
RequestedModes == {"IOC", "FOK", "RETURN", "BOC"}

\* what order_send may answer
Retcodes == {TRADE_RETCODE_DONE, TRADE_RETCODE_REQUOTE, TRADE_RETCODE_REJECT,
             TRADE_RETCODE_INVALID_FILL, TRADE_RETCODE_INVALID_VOLUME,
             TRADE_RETCODE_TRADE_DISABLED, TRADE_RETCODE_MARKET_CLOSED,
             TRADE_RETCODE_NO_MONEY, TRADE_RETCODE_CONNECTION, TRADE_RETCODE_ONLY_REAL}
\* the codes of the validations of place_trade that return before the loop;
\* 1012: a terminal call raised
PlaceRejections == {1006, 1007, 1011, 10027, 10019, 1009, 10017, 1012}
\* the same for close_trade; 1014: a terminal call raised
CloseRejections == {1013, 1007, 1009, 1014}

NoTradeResult == [ok |-> FALSE, code |-> 0, mode |-> "-"]
\* saw and calls are history: the connected flag the call read at its test and
\* the number of statements with terminal calls it has executed
\* env is history too: what the terminal answered to the validations of
\* place_trade and the side the caller asked for
NoAnswers == [selected |-> FALSE, info |-> "-", account_info |-> "-",
              trade_allowed |-> FALSE, funds |-> FALSE, tick |-> FALSE,
              order_type |-> "-"]
TradeIdle == [op |-> "-", pc |-> "idle", mask |-> 0, pref |-> "-", cands |-> <<>>,
              idx |-> 0, sent |-> <<>>, result |-> NoTradeResult, saw |-> FALSE,
              calls |-> 0, env |-> NoAnswers]
TradeFailed(c, m) == [ok |-> FALSE, code |-> c, mode |-> m]
TradeHolder == <<"trade">>

TradeUnchanged == UNCHANGED <<connected, shutdown_event, executor_shutdown,
                              active_subscriptions, price_threads, call, worker,
                              callsLeft, pollsLeft, spawnsLeft, chan, lastres, excess,
                              scen, regVars, vol, activity, order_stops, mt5,
                              streams>>

\* the connected test left out
TradeBeginUnchecked(op) ==
    /\ trade.pc = "idle"
    /\ trade' = [TradeIdle EXCEPT !.op = op, !.pc = "lock", !.saw = connected]
    /\ UNCHANGED mt5_lock
    /\ TradeUnchanged

\* if not self.connected: return False, {"code": 1004, ...}
TradeBegin(op) ==
    /\ trade.pc = "idle"
    /\ trade' = IF connected
                THEN [TradeIdle EXCEPT !.op = op, !.pc = "lock", !.saw = connected]
                ELSE [TradeIdle EXCEPT !.op = op, !.pc = "done", !.saw = connected,
                                       !.result = TradeFailed(1004, "-")]
    /\ UNCHANGED mt5_lock
    /\ TradeUnchanged

PlaceTradeBegin == TradeBegin("place")
CloseTradeBegin == TradeBegin("close")

\* with self.mt5_lock:
TradeLock ==
    /\ trade.pc = "lock"
    /\ LockFree(mt5_lock)
    /\ mt5_lock' = TradeHolder
    /\ trade' = [trade EXCEPT !.pc = "validate"]
    /\ TradeUnchanged

\* what the terminal may answer to the validations of place_trade:
\* symbol_select, symbol_info (none, or trade_mode 0, or tradable),
\* account_info (none or an account), its trade_allowed, its balance against
\* volume * 100, symbol_info_tick; and the order_type of the caller
PlaceAnswers ==
    [selected : BOOLEAN, info : {"none", "untradable", "tradable"},
     account_info : {"none", "account"}, trade_allowed : BOOLEAN, funds : BOOLEAN,
     tick : BOOLEAN, order_type : {"BUY", "sell", "HOLD"}]

\* order_type.upper()
Upper(order_type) ==
    CASE order_type = "sell" -> "SELL"
      [] order_type = "buy" -> "BUY"
      [] OTHER -> order_type

\* the account's trading permission not tested
PlaceValidationNoPermission(env) ==
    IF ~env.selected THEN 1006
    ELSE IF env.info # "tradable" THEN 1007
    ELSE IF env.account_info = "none" THEN 1011
    ELSE IF ~env.funds THEN 10019
    ELSE IF ~env.tick THEN 1009
    ELSE IF Upper(env.order_type) \notin {"BUY", "SELL"} THEN 10017
    ELSE 0

\* the code of the first validation of place_trade that fails, 0 when all pass
PlaceValidation(env) ==
    IF ~env.selected THEN 1006
    ELSE IF env.info # "tradable" THEN 1007
    ELSE IF env.account_info = "none" THEN 1011
    ELSE IF ~env.trade_allowed THEN 10027
    ELSE IF ~env.funds THEN 10019
    ELSE IF ~env.tick THEN 1009
    ELSE IF Upper(env.order_type) \notin {"BUY", "SELL"} THEN 10017
    ELSE 0

\* place_trade up to its loop: the validations, the price, the stops, the
\* volume and the candidate filling modes; or one of the terminal calls raises
PlaceTradeValidate ==
    /\ trade.op = "place" /\ trade.pc = "validate"
    /\ \/ \E env \in PlaceAnswers :
            /\ PlaceValidation(env) # 0
            /\ trade' = [trade EXCEPT !.pc = "done", !.env = env, !.calls = @ + 1,
                                      !.result = TradeFailed(PlaceValidation(env), "-")]
            /\ mt5_lock' = NoHolder
       \/ /\ trade' = [trade EXCEPT !.pc = "done", !.result = TradeFailed(1012, "-"),
                                      !.calls = @ + 1]
          /\ mt5_lock' = NoHolder
       \/ \E env \in PlaceAnswers, mask \in FillingMasks, filling_mode \in RequestedModes :
            /\ PlaceValidation(env) = 0
            /\ trade' = [trade EXCEPT !.pc = "sending", !.env = env, !.mask = mask,
                                      !.pref = filling_mode,
                                      !.cands = PlaceCandidates(mask, filling_mode),
                                      !.idx = 1, !.calls = @ + 1]
            /\ UNCHANGED mt5_lock
    /\ TradeUnchanged

\* close_trade up to its loop: the position, the symbol, the volume, the
\* price and the candidate filling modes
CloseTradeValidate ==
    /\ trade.op = "close" /\ trade.pc = "validate"
    /\ \/ \E c \in CloseRejections :
            /\ trade' = [trade EXCEPT !.pc = "done", !.result = TradeFailed(c, "-"),
                                      !.calls = @ + 1]
            /\ mt5_lock' = NoHolder
       \/ \E mask \in FillingMasks :
            /\ trade' = [trade EXCEPT !.pc = "sending", !.mask = mask,
                                      !.cands = CloseCandidates(mask), !.idx = 1,
                                      !.calls = @ + 1]
            /\ UNCHANGED mt5_lock
    /\ TradeUnchanged

\* the return on TRADE_RETCODE_DONE put after the loop: the success is
\* remembered and the next mode is tried
AfterSendSuccessLate(tr, retcode, stops) ==
    LET mode == tr.cands[tr.idx].name
        sent == Append(tr.sent, [mode |-> mode, retcode |-> retcode])
    IN IF stops \/ tr.idx = Len(tr.cands)
       THEN [tr EXCEPT !.pc = "done", !.sent = sent, !.calls = @ + 1,
                       !.result = IF retcode = TRADE_RETCODE_DONE
                                  THEN [ok |-> TRUE, code |-> retcode, mode |-> mode]
                                  ELSE TradeFailed(retcode, mode)]
       ELSE [tr EXCEPT !.sent = sent, !.idx = @ + 1, !.calls = @ + 1]

\* one iteration of the loop over supported_modes: order_send answered retcode
AfterSend(tr, retcode, stops) ==
    LET mode == tr.cands[tr.idx].name
        sent == Append(tr.sent, [mode |-> mode, retcode |-> retcode])
    IN IF retcode = TRADE_RETCODE_DONE
       THEN [tr EXCEPT !.pc = "done", !.sent = sent, !.calls = @ + 1,
                       !.result = [ok |-> TRUE, code |-> retcode, mode |-> mode]]
       ELSE IF stops \/ tr.idx = Len(tr.cands)
       THEN [tr EXCEPT !.pc = "done", !.sent = sent, !.calls = @ + 1,
                       !.result = TradeFailed(retcode, mode)]
       ELSE [tr EXCEPT !.sent = sent, !.idx = @ + 1, !.calls = @ + 1]

PlaceTradeSend ==
    /\ trade.op = "place" /\ trade.pc = "sending"
    /\ \E retcode \in Retcodes : trade' = AfterSend(trade, retcode, PlaceStops(retcode))
    /\ mt5_lock' = IF trade'.pc = "done" THEN NoHolder ELSE mt5_lock
    /\ TradeUnchanged

CloseTradeSend ==
    /\ trade.op = "close" /\ trade.pc = "sending"
    /\ \E retcode \in Retcodes : trade' = AfterSend(trade, retcode, CloseStops(retcode))
    /\ mt5_lock' = IF trade'.pc = "done" THEN NoHolder ELSE mt5_lock
    /\ TradeUnchanged

\* the lock taken with acquire() and not released by the handler
TradeSendRaisesLocked ==
    /\ trade.pc = "sending"
    /\ trade' = [trade EXCEPT !.pc = "done", !.calls = @ + 1,
                    !.result = TradeFailed(IF trade.op = "place" THEN 1012 ELSE 1014,
                                           "-")]
    /\ UNCHANGED mt5_lock
    /\ TradeUnchanged

\* order_send raised, or answered None and reading result.retcode raised:
\* the handler returns code 1012 (place_trade) or 1014 (close_trade)
TradeSendRaises ==
    /\ trade.pc = "sending"
    /\ trade' = [trade EXCEPT !.pc = "done", !.calls = @ + 1,
                    !.result = TradeFailed(IF trade.op = "place" THEN 1012 ELSE 1014,
                                           "-")]
    /\ mt5_lock' = NoHolder
    /\ TradeUnchanged

\* get_symbols, get_symbol_info, get_price, get_positions, get_account_info:
\* the connected test, with self.mt5_lock, the terminal calls, the result
QueryOps == {"get_symbols", "get_symbol_info", "get_price", "get_positions",
             "get_account_info"}
\* the error codes each returns once it has passed the connected test
QueryErrors(op) ==
    CASE op = "get_symbols" -> {1005}
      [] op = "get_symbol_info" -> {1006, 1007, 1008}
      [] op = "get_price" -> {1006, 1009, 1010}
      [] op = "get_positions" -> {1014}
      [] op = "get_account_info" -> {1011, 1015}

QueryBegin == \E op \in QueryOps : TradeBegin(op)

QueryCall ==
    /\ trade.op \in QueryOps /\ trade.pc = "validate"
    /\ \/ trade' = [trade EXCEPT !.pc = "done", !.calls = @ + 1,
                                  !.result = [ok |-> TRUE, code |-> 0, mode |-> "-"]]
       \/ \E c \in QueryErrors(trade.op) :
            trade' = [trade EXCEPT !.pc = "done", !.calls = @ + 1,
                                   !.result = TradeFailed(c, "-")]
    /\ mt5_lock' = NoHolder
    /\ TradeUnchanged

\* the caller has the result
TradeReturn ==
    /\ trade.pc = "done"
    /\ trade' = TradeIdle
    /\ UNCHANGED mt5_lock
    /\ TradeUnchanged

-----------------------------------------------------------------------------
(* The volume of an order request: place_trade and close_trade bring the   *)
(* requested volume to the instrument's step and limits before they build  *)
(* the request. Volumes are counted in thousandths of a lot, so that the    *)
(* arithmetic is exact.                                                     *)

\* volumes, limits and steps explored, in thousandths of a lot
MaxVolume == 8
MaxStep == 4

Max(a, b) == IF a >= b THEN a ELSE b
Min(a, b) == IF a <= b THEN a ELSE b

\* round(n / d) of Python 3: to the nearest integer, a tie to the even one
RoundHalfEven(n, d) ==
    LET q == n \div d
        r == n % d
    IN IF 2 * r < d THEN q
       ELSE IF 2 * r > d THEN q + 1
       ELSE IF q % 2 = 0 THEN q ELSE q + 1

\* the limits applied before the rounding
NormalizeVolumeClampFirst(volume, volume_min, volume_max, volume_step) ==
    RoundHalfEven(Max(volume_min, Min(volume_max, volume)), volume_step) * volume_step

\* the lower limit forgotten
NormalizeVolumeNoFloor(volume, volume_min, volume_max, volume_step) ==
    Min(volume_max, RoundHalfEven(volume, volume_step) * volume_step)

\* max(info.volume_min, min(info.volume_max,
\*     round(volume / info.volume_step) * info.volume_step))
NormalizeVolume(volume, volume_min, volume_max, volume_step) ==
    Max(volume_min, Min(volume_max, RoundHalfEven(volume, volume_step) * volume_step))

NoVolume == [op |-> "-", requested |-> 0, position |-> 0, volume_min |-> 0,
             volume_max |-> 0, volume_step |-> 0, submitted |-> 0]

\* the request of the /trade or /close endpoint and the instrument it is for:
\* volume_min <= volume_max and volume_step > 0; position is pos.volume of
\* the position to close
VolumeInputs ==
    {[NoVolume EXCEPT !.requested = v, !.position = p, !.volume_min = mn,
                      !.volume_max = mx, !.volume_step = st] :
        v \in 0..MaxVolume, p \in {1, MaxVolume}, mn \in 1..MaxVolume,
        mx \in 1..MaxVolume, st \in 1..MaxStep}
\* 0.07 and 0.004 lots on an instrument with step 0.01, minimum 0.01 and
\* maximum 10 lots
VolumeExamples ==
    {[NoVolume EXCEPT !.requested = v, !.position = 100, !.volume_min = 10,
                      !.volume_max = 10000, !.volume_step = 10] : v \in {70, 4}}

VolumeUnchanged == UNCHANGED <<streamVars, trade, regVars, activity, order_stops, mt5,
                               streams>>

\* place_trade: volume = max(..., min(..., round(volume / step) * step))
PlaceTradeVolume ==
    /\ vol.op = "-"
    /\ vol' = [vol EXCEPT !.op = "place",
                          !.submitted = NormalizeVolume(vol.requested, vol.volume_min,
                                                        vol.volume_max, vol.volume_step)]
    /\ VolumeUnchanged

\* close_trade: volume = volume or pos.volume, then as place_trade
CloseTradeVolume ==
    /\ vol.op = "-"
    /\ LET volume == IF vol.requested = 0 THEN vol.position ELSE vol.requested
       IN vol' = [vol EXCEPT !.op = "close", !.requested = volume,
                             !.submitted = NormalizeVolume(volume, vol.volume_min,
                                                           vol.volume_max, vol.volume_step)]
    /\ VolumeUnchanged

-----------------------------------------------------------------------------
(* The terminal: import MetaTrader5 as mt5. The module is imported once    *)
(* and every MT5Connector calls its functions without a handle of its own, *)
(* so the connection mt5.initialize opens, the account mt5.login selects   *)
(* and what mt5.shutdown closes are the module's, not the connector's.     *)

NoTerminal == [initialized |-> FALSE, login |-> None]

\* mt5.initialize() answered True
Initialize(m) == [m EXCEPT !.initialized = TRUE]

\* mt5.login(login, password=password, server=server) answered True
Login(m, login) == [m EXCEPT !.login = login]

\* mt5.shutdown()
Shutdown(m) == NoTerminal

-----------------------------------------------------------------------------
(* The registry: connectors, connectors_lock, get_connector,               *)
(* remove_connector, cleanup_inactive_connectors. A connector is seen here *)
(* through the fields the registry reads: connected, last_activity and     *)
(* whether active_subscriptions is empty.                                  *)

RegThreads == {"r1", "r2"}
Accounts == {"acc1", "acc2"}
RegCalls == 2
MaxInstances == 2
IdleThreshold == 1800
\* the clock advances MaxTicks times by the idle threshold: an idle connector
\* is first exactly the threshold old, then older
MaxTicks == 2
TickSeconds == IdleThreshold
MaxTime == MaxTicks * TickSeconds

\* seen is history: what cleanup_inactive_connectors found and left at each
\* connector it visited in the call
RegIdle == [op |-> "idle", pc |-> "-", acc |-> "-", ref |-> 0, todo |-> <<>>, time |-> 0,
            seen |-> <<>>]
InstanceIds == 1..Len(inst)
LiveInstances == {i \in InstanceIds : ~inst[i].evicted}

\* what the registry and the operations of its connectors leave alone
SessionsUnchanged == UNCHANGED <<streamVars, trade, vol, activity, order_stops, streams>>
RegUnchanged == SessionsUnchanged /\ UNCHANGED mt5

\* the registry used without taking its lock
RegistryLockIgnored == TRUE

\* with connectors_lock: blocks until the lock is free
RegistryLockFree == LockFree(connectors_lock)

RegBegin(r, op, a) ==
    /\ rcall[r].op = "idle"
    /\ rcallsLeft[r] > 0
    /\ rcallsLeft' = [rcallsLeft EXCEPT ![r] = @ - 1]
    /\ rcall' = [rcall EXCEPT ![r] = [RegIdle EXCEPT !.op = op, !.pc = "lock", !.acc = a]]
    /\ UNCHANGED <<connectors, connectors_lock, inst, now>>
    /\ RegUnchanged

RegLock(r, op, pc1) ==
    /\ rcall[r].op = op /\ rcall[r].pc = "lock"
    /\ RegistryLockFree
    /\ connectors_lock' = <<"thread", r>>
    /\ rcall' = [rcall EXCEPT ![r].pc = pc1]
    /\ UNCHANGED <<connectors, inst, rcallsLeft, now>>
    /\ RegUnchanged

\* MT5Connector.disconnect as the registry sees it
Disconnected(c, time) == [c EXCEPT !.connected = FALSE, !.subs = FALSE,
                                   !.last_activity = time]

(* get_connector *)
GetConnectorBegin(r) ==
    /\ Len(inst) + Cardinality({q \in RegThreads : rcall[q].op = "get"}) < MaxInstances
    /\ \E a \in Accounts : RegBegin(r, "get", a)

GetConnectorLock(r) == RegLock(r, "get", "check")

\* if account_id not in connectors:
GetConnectorCheck(r) ==
    /\ rcall[r].op = "get" /\ rcall[r].pc = "check"
    /\ rcall' = [rcall EXCEPT ![r].pc =
                    IF rcall[r].acc \in DOMAIN connectors THEN "ret" ELSE "create"]
    /\ UNCHANGED <<connectors, connectors_lock, inst, rcallsLeft, now>>
    /\ RegUnchanged

\* connectors[account_id] = MT5Connector(account_id)
GetConnectorCreate(r) ==
    /\ rcall[r].op = "get" /\ rcall[r].pc = "create"
    /\ inst' = Append(inst, [acc |-> rcall[r].acc, connected |-> FALSE, subs |-> FALSE,
                             last_activity |-> now, evicted |-> FALSE, locked |-> FALSE])
    /\ connectors' = DictSet(connectors, rcall[r].acc, Len(inst) + 1)
    /\ rcall' = [rcall EXCEPT ![r].pc = "ret"]
    /\ UNCHANGED <<connectors_lock, rcallsLeft, now>>
    /\ RegUnchanged

\* return connectors[account_id]; the caller then works on the connector
GetConnectorReturn(r) ==
    /\ rcall[r].op = "get" /\ rcall[r].pc = "ret"
    /\ rcall' = [rcall EXCEPT ![r] =
                    IF rcall[r].acc \in DOMAIN connectors
                    THEN [RegIdle EXCEPT !.op = "holding", !.acc = rcall[r].acc,
                                         !.ref = connectors[rcall[r].acc]]
                    ELSE RegIdle]
    /\ connectors_lock' = NoHolder
    /\ UNCHANGED <<connectors, inst, rcallsLeft, now>>
    /\ RegUnchanged

\* the request handler calls an operation of the connector it was handed:
\* connect and disconnect run with self.mt5_lock; handle_request_data reads
\* connector.connected before it calls start_price_stream
ConnectorOps == {"connect", "connect_failed", "request_data", "subscribe", "unsubscribe",
                 "disconnect"}
UseConnector(r) ==
    /\ rcall[r].op = "holding" /\ rcall[r].pc # "calling"
    /\ \E o \in ConnectorOps :
         LET c == inst[rcall[r].ref]
             touched == [c EXCEPT !.last_activity = now]
         IN /\ o \in {"connect", "connect_failed", "disconnect"} => ~c.locked
            /\ o = "request_data" => c.connected
            /\ o = "subscribe" => rcall[r].pc = "checked"
            /\ inst' = [inst EXCEPT ![rcall[r].ref] =
                          CASE o = "connect" -> [touched EXCEPT !.connected = TRUE]
                            [] o = "connect_failed" -> touched
                            [] o = "request_data" -> c
                            [] o = "subscribe" -> [touched EXCEPT !.subs = TRUE]
                            [] o = "unsubscribe" -> [touched EXCEPT !.subs = FALSE]
                            [] o = "disconnect" -> Disconnected(c, now)]
            /\ rcall' = [rcall EXCEPT ![r].pc = CASE o = "request_data" -> "checked"
                                                  [] o = "subscribe" -> @
                                                  [] OTHER -> "-"]
    /\ UNCHANGED <<connectors, connectors_lock, rcallsLeft, now>>
    /\ RegUnchanged

\* a terminal call of the connector (get_price, place_trade, ...): passes the
\* connected test and runs with self.mt5_lock until the terminal answers
TerminalCallBegin(r) ==
    /\ rcall[r].op = "holding" /\ rcall[r].pc # "calling"
    /\ inst[rcall[r].ref].connected
    /\ ~inst[rcall[r].ref].locked
    /\ inst' = [inst EXCEPT ![rcall[r].ref].locked = TRUE,
                            ![rcall[r].ref].last_activity = now]
    /\ rcall' = [rcall EXCEPT ![r].pc = "calling"]
    /\ UNCHANGED <<connectors, connectors_lock, rcallsLeft, now>>
    /\ RegUnchanged

TerminalCallEnd(r) ==
    /\ rcall[r].op = "holding" /\ rcall[r].pc = "calling"
    /\ inst' = [inst EXCEPT ![rcall[r].ref].locked = FALSE]
    /\ rcall' = [rcall EXCEPT ![r].pc = "-"]
    /\ UNCHANGED <<connectors, connectors_lock, rcallsLeft, now>>
    /\ RegUnchanged

\* the request handler returns
DropConnector(r) ==
    /\ rcall[r].op = "holding" /\ rcall[r].pc # "calling"
    /\ rcall' = [rcall EXCEPT ![r] = RegIdle]
    /\ UNCHANGED <<connectors, connectors_lock, inst, rcallsLeft, now>>
    /\ RegUnchanged

(* remove_connector *)
RemoveConnectorBegin(r) == \E a \in Accounts : RegBegin(r, "remove", a)

RemoveConnectorLock(r) == RegLock(r, "remove", "check")

\* if account_id in connectors: connector.disconnect()
RemoveConnectorCheck(r) ==
    /\ rcall[r].op = "remove" /\ rcall[r].pc = "check"
    /\ IF rcall[r].acc \in DOMAIN connectors
       THEN /\ ~inst[connectors[rcall[r].acc]].locked
            /\ inst' = [inst EXCEPT ![connectors[rcall[r].acc]] = Disconnected(@, now)]
            /\ rcall' = [rcall EXCEPT ![r].pc = "del"]
            /\ UNCHANGED connectors_lock
       ELSE /\ rcall' = [rcall EXCEPT ![r] = RegIdle]
            /\ connectors_lock' = NoHolder
            /\ UNCHANGED inst
    /\ UNCHANGED <<connectors, rcallsLeft, now>>

RemoveConnectorDisconnect(r) == RemoveConnectorCheck(r) /\ RegUnchanged

\* the same with the mt5.shutdown() of the disconnect
RemoveConnectorShutdown(r) ==
    /\ RemoveConnectorCheck(r)
    /\ mt5' = IF rcall[r].acc \in DOMAIN connectors THEN Shutdown(mt5) ELSE mt5
    /\ SessionsUnchanged

\* del connectors[account_id]
RemoveConnectorDelete(r) ==
    /\ rcall[r].op = "remove" /\ rcall[r].pc = "del"
    /\ IF rcall[r].acc \in DOMAIN connectors
       THEN /\ inst' = [inst EXCEPT ![connectors[rcall[r].acc]].evicted = TRUE]
            /\ connectors' = DictDel(connectors, rcall[r].acc)
       ELSE UNCHANGED <<inst, connectors>>
    /\ rcall' = [rcall EXCEPT ![r] = RegIdle]
    /\ connectors_lock' = NoHolder
    /\ UNCHANGED <<rcallsLeft, now>>
    /\ RegUnchanged

(* cleanup_inactive_connectors *)
\* a set as a list, in some order
RECURSIVE ListOf(_)
ListOf(S) == IF S = {} THEN <<>>
             ELSE LET x == CHOOSE y \in S : TRUE IN <<x>> \o ListOf(S \ {x})

\* the idle test taken at the threshold instead of beyond it
InactiveAtThreshold(c, current_time) ==
    ~c.connected \/ (current_time - c.last_activity >= IdleThreshold /\ ~c.subs)

\* not connector.connected or (current_time - connector.last_activity > 1800
\*                             and not connector.active_subscriptions)
Inactive(c, current_time) ==
    ~c.connected \/ (current_time - c.last_activity > IdleThreshold /\ ~c.subs)

CleanupBegin(r) == RegBegin(r, "cleanup", "-")

CleanupLock(r) == RegLock(r, "cleanup", "scan")

\* current_time = time.time(); for account_id in list(connectors.keys()):
CleanupScan(r) ==
    /\ rcall[r].op = "cleanup" /\ rcall[r].pc = "scan"
    /\ rcall' = [rcall EXCEPT ![r].pc = "visit", ![r].time = now,
                              ![r].todo = ListOf(DOMAIN connectors)]
    /\ UNCHANGED <<connectors, connectors_lock, inst, rcallsLeft, now>>
    /\ RegUnchanged

\* the body of the loop for one account: disconnect and delete when inactive
CleanupLoopBody(r) ==
    /\ rcall[r].op = "cleanup" /\ rcall[r].pc = "visit"
    /\ rcall[r].todo # <<>>
    /\ LET a == Head(rcall[r].todo)
       IN /\ IF a \in DOMAIN connectors /\ Inactive(inst[connectors[a]], rcall[r].time)
             THEN /\ ~inst[connectors[a]].locked
                  /\ inst' = [inst EXCEPT ![connectors[a]] =
                                 [Disconnected(@, now) EXCEPT !.evicted = TRUE]]
                  /\ connectors' = DictDel(connectors, a)
             ELSE UNCHANGED <<inst, connectors>>
          /\ rcall' = [rcall EXCEPT
                          ![r].todo = Tail(@),
                          ![r].seen = IF a \in DOMAIN connectors
                                      THEN Append(@, [acc |-> a, time |-> rcall[r].time,
                                                      found |-> inst[connectors[a]],
                                                      left |-> inst'[connectors[a]],
                                                      registered |-> a \in DOMAIN connectors'])
                                      ELSE @]
    /\ UNCHANGED <<connectors_lock, rcallsLeft, now>>

CleanupVisit(r) == CleanupLoopBody(r) /\ RegUnchanged

\* the same with the mt5.shutdown() of the disconnect
CleanupVisitShutdown(r) ==
    /\ CleanupLoopBody(r)
    /\ mt5' = IF Head(rcall[r].todo) \in DOMAIN connectors \ DOMAIN connectors'
              THEN Shutdown(mt5) ELSE mt5
    /\ SessionsUnchanged

CleanupReturn(r) ==
    /\ rcall[r].op = "cleanup" /\ rcall[r].pc = "visit"
    /\ rcall[r].todo = <<>>
    /\ rcall' = [rcall EXCEPT ![r] = RegIdle]
    /\ connectors_lock' = NoHolder
    /\ UNCHANGED <<connectors, inst, rcallsLeft, now>>
    /\ RegUnchanged

\* time passes
Tick ==
    /\ now + TickSeconds <= MaxTime
    /\ now' = now + TickSeconds
    /\ UNCHANGED <<connectors, connectors_lock, inst, rcall, rcallsLeft>>
    /\ RegUnchanged

RegistryFresh(calls) ==
    /\ connectors = EmptyDict
    /\ connectors_lock = NoHolder
    /\ inst = <<>>
    /\ rcall = [r \in RegThreads |-> RegIdle]
    /\ rcallsLeft = [r \in RegThreads |-> IF r = "r1" THEN calls ELSE IF calls > 0 THEN 1 ELSE 0]
    /\ now = 0

-----------------------------------------------------------------------------
(* The connectors of the registry at the terminal: connect and disconnect  *)
(* of the connector a request handler was handed, each under the mt5_lock  *)
(* of that connector. The handler of /connect passes the login of the      *)
(* account it names, so the login is written as the account.               *)

IsolationCalls == 2

SessionStep(r, op, pc0) == rcall[r].op = op /\ rcall[r].pc = pc0

\* connect: self.update_activity(); with self.mt5_lock:
SessionConnectLock(r) ==
    /\ rcall[r].op = "holding" /\ rcall[r].pc # "calling"
    /\ ~inst[rcall[r].ref].locked
    /\ inst' = [inst EXCEPT ![rcall[r].ref].locked = TRUE,
                            ![rcall[r].ref].last_activity = now]
    /\ rcall' = [rcall EXCEPT ![r].op = "connect", ![r].pc = "initialize"]
    /\ UNCHANGED <<connectors, connectors_lock, rcallsLeft, now>>
    /\ RegUnchanged

\* if not mt5.initialize(): return False, {"code": 1000, ...}
SessionConnectInitialize(r) ==
    /\ SessionStep(r, "connect", "initialize")
    /\ \E ok \in BOOLEAN :
         IF ok
         THEN /\ mt5' = Initialize(mt5)
              /\ rcall' = [rcall EXCEPT ![r].pc = "login"]
              /\ UNCHANGED inst
         ELSE /\ inst' = [inst EXCEPT ![rcall[r].ref].locked = FALSE]
              /\ rcall' = [rcall EXCEPT ![r].op = "holding", ![r].pc = "-"]
              /\ UNCHANGED mt5
    /\ UNCHANGED <<connectors, connectors_lock, rcallsLeft, now>>
    /\ SessionsUnchanged

\* authorized = mt5.login(login, ...); if not authorized: return False, ...
\* self.connected = True
SessionConnectLogin(r) ==
    /\ SessionStep(r, "connect", "login")
    /\ \E authorized \in BOOLEAN :
         IF authorized
         THEN /\ mt5' = Login(mt5, inst[rcall[r].ref].acc)
              /\ inst' = [inst EXCEPT ![rcall[r].ref].connected = TRUE,
                                      ![rcall[r].ref].locked = FALSE]
         ELSE /\ inst' = [inst EXCEPT ![rcall[r].ref].locked = FALSE]
              /\ UNCHANGED mt5
    /\ rcall' = [rcall EXCEPT ![r].op = "holding", ![r].pc = "-"]
    /\ UNCHANGED <<connectors, connectors_lock, rcallsLeft, now>>
    /\ SessionsUnchanged

\* disconnect: self.update_activity(); with self.mt5_lock:
SessionDisconnectLock(r) ==
    /\ rcall[r].op = "holding" /\ rcall[r].pc # "calling"
    /\ ~inst[rcall[r].ref].locked
    /\ inst' = [inst EXCEPT ![rcall[r].ref].locked = TRUE,
                            ![rcall[r].ref].last_activity = now]
    /\ rcall' = [rcall EXCEPT ![r].op = "disconnect", ![r].pc = "shutdown"]
    /\ UNCHANGED <<connectors, connectors_lock, rcallsLeft, now>>
    /\ RegUnchanged

\* self.connected = False ... mt5.shutdown(); return True, ...
SessionDisconnectShutdown(r) ==
    /\ SessionStep(r, "disconnect", "shutdown")
    /\ inst' = [inst EXCEPT ![rcall[r].ref] =
                   [Disconnected(@, @.last_activity) EXCEPT !.locked = FALSE]]
    /\ mt5' = Shutdown(mt5)
    /\ rcall' = [rcall EXCEPT ![r].op = "holding", ![r].pc = "-"]
    /\ UNCHANGED <<connectors, connectors_lock, rcallsLeft, now>>
    /\ SessionsUnchanged

-----------------------------------------------------------------------------
(* The stop-loss and take-profit of place_trade. Prices and distances are  *)
(* counted in half points (a point is the last of the instrument's         *)
(* digits), so that a distance may fall between two prices of the          *)
(* instrument and round(x, info.digits) has something to round.            *)

\* half points in a point
PointUnits == 2
\* the caller's distances explored, in half points (0: None or omitted), and
\* the instrument's stops_level, in points
MaxDistance == 4
MaxStopsLevel == 2
\* the tick: bid 10 and ask 11 points
StopsTicks == {[bid |-> 10 * PointUnits, ask |-> 11 * PointUnits]}

\* round(x, info.digits): to the nearest point, a tie to the even one
RoundDigits(x) == RoundHalfEven(x, PointUnits) * PointUnits

NoStops == [order_type |-> "-", price |-> 0, sl_distance |-> 0, tp_distance |-> 0,
            stops_level |-> 0, sl |-> 0, tp |-> 0, sends_sl |-> FALSE,
            sends_tp |-> FALSE]

\* place_trade from `order_type = order_type.upper()` to the request: the
\* price, sl and tp of the side, and the keys "sl" and "tp" of the request
PlaceTradeStops ==
    /\ order_stops = NoStops
    /\ \E tick \in StopsTicks, order_type \in {"BUY", "SELL"},
          sl_distance \in 0..MaxDistance, tp_distance \in 0..MaxDistance,
          stops_level \in 0..MaxStopsLevel :
         LET price == IF order_type = "BUY" THEN tick.ask ELSE tick.bid
             sl == IF sl_distance = 0 THEN 0
                   ELSE IF order_type = "BUY" THEN RoundDigits(price - sl_distance)
                   ELSE RoundDigits(price + sl_distance)
             tp == IF tp_distance = 0 THEN 0
                   ELSE IF order_type = "BUY" THEN RoundDigits(price + tp_distance)
                   ELSE RoundDigits(price - tp_distance)
         IN order_stops' = [order_type |-> order_type, price |-> price,
                            sl_distance |-> sl_distance, tp_distance |-> tp_distance,
                            stops_level |-> stops_level, sl |-> sl, tp |-> tp,
                            sends_sl |-> sl_distance # 0 /\ sl > 0,
                            sends_tp |-> tp_distance # 0 /\ tp > 0]
    /\ UNCHANGED <<streamVars, trade, regVars, vol, activity, mt5, streams>>

-----------------------------------------------------------------------------
(* MT5Connector.update_activity, the first statement of every public       *)
(* operation of the session: self.last_activity = time.time(). The call of *)
(* time.time() and the store of its value are two steps of the thread; the *)
(* statement runs outside mt5_lock.                                        *)

PublicOps == {"connect", "disconnect", "get_symbols", "get_symbol_info", "get_price",
              "start_price_stream", "stop_price_stream", "place_trade", "close_trade",
              "get_positions", "get_account_info"}

\* time is history once the value is stored: the clock the operation read
\* on entry
NotInOperation == [op |-> "-", pc |-> "idle", time |-> 0]
NoActivity == [last_activity |-> 0, caller |-> [t \in Threads |-> NotInOperation]]

ActivityUnchanged == UNCHANGED <<streamVars, trade, regVars, vol, order_stops, mt5,
                                 streams>>

\* a thread enters a public operation: update_activity evaluates time.time()
UpdateActivityClock(t) ==
    /\ activity.caller[t].pc = "idle"
    /\ \E op \in PublicOps :
         activity' = [activity EXCEPT !.caller[t] = [op |-> op, pc |-> "store",
                                                     time |-> now]]
    /\ ActivityUnchanged

\* self.last_activity = <the value read>
UpdateActivityStore(t) ==
    /\ activity.caller[t].pc = "store"
    /\ activity' = [activity EXCEPT !.last_activity = activity.caller[t].time,
                                    !.caller[t].pc = "body"]
    /\ ActivityUnchanged

\* the rest of the operation: it returns its result or its classified error
\* and does not touch last_activity again
OperationReturns(t) ==
    /\ activity.caller[t].pc = "body"
    /\ activity' = [activity EXCEPT !.caller[t] = NotInOperation]
    /\ ActivityUnchanged

-----------------------------------------------------------------------------
(* The executor of a connected session with more symbols than threads:     *)
(* ThreadPoolExecutor(max_workers=5) runs the price_worker closures that   *)
(* start_price_stream submits, in the order of their submission, each on   *)
(* one of its threads until the closure returns. A symbol is seen here     *)
(* through its entry in active_subscriptions, its entry in price_threads   *)
(* and its closure. One client sends request-data with the list of the     *)
(* symbols, and handle_request_data calls start_price_stream for them in   *)
(* the order of the list; stop-data comes for any symbol at any time.      *)

PoolSymbols == 1..(max_workers + 1)

NoStream == [subscribed |-> FALSE, registered |-> FALSE, task |-> "none",
             last_price |-> None]
NoStreams == [s \in PoolSymbols |-> NoStream]

PoolUnchanged == UNCHANGED <<streamVars, trade, regVars, vol, activity, order_stops, mt5>>

\* the threads of the executor that are running a closure
BusyThreads == Cardinality({s \in PoolSymbols : streams[s].task = "running"})

\* for symbol in symbols: connector.start_price_stream(symbol, client_id):
\* active_subscriptions[symbol] = [client_id]; future = executor.submit(...);
\* price_threads[symbol] = future
PoolStart(s) ==
    /\ streams[s].task = "none"
    /\ \A u \in PoolSymbols : u < s => streams[u].task # "none"
    /\ streams' = [streams EXCEPT ![s] = [subscribed |-> TRUE, registered |-> TRUE,
                                          task |-> "queued", last_price |-> None]]
    /\ PoolUnchanged

\* stop_price_stream(symbol, client_id) of the only subscriber:
\* del active_subscriptions[symbol]; del price_threads[symbol]
PoolStop(s) ==
    /\ streams[s].subscribed
    /\ streams' = [streams EXCEPT ![s].subscribed = FALSE, ![s].registered = FALSE]
    /\ PoolUnchanged

\* a thread of the executor that runs no closure takes the first of the queue
PoolRun(s) ==
    /\ streams[s].task = "queued"
    /\ \A u \in PoolSymbols : u < s => streams[u].task # "queued"
    /\ BusyThreads < max_workers
    /\ streams' = [streams EXCEPT ![s].task = "running"]
    /\ PoolUnchanged

\* one turn of the loop of price_worker: get_price answers a quote, emitted
\* when its signature differs from last_price
PoolPoll(s) ==
    /\ streams[s].task = "running"
    /\ streams[s].registered
    /\ \E q \in Quotes : streams' = [streams EXCEPT ![s].last_price = Signature(q[1], q[2])]
    /\ PoolUnchanged

\* the loop ends (symbol not in price_threads) and the closure deletes the
\* symbol's entries and returns
PoolExit(s) ==
    /\ streams[s].task = "running"
    /\ ~streams[s].registered
    /\ streams' = [streams EXCEPT ![s] = [NoStream EXCEPT !.task = "done"]]
    /\ PoolUnchanged

-----------------------------------------------------------------------------
(* The session with its request threads and workers.                       *)

SessionFresh(calls, polls, spawns) ==
    /\ connected = FALSE
    /\ shutdown_event = FALSE
    /\ executor_shutdown = FALSE
    /\ active_subscriptions = EmptyDict
    /\ price_threads = EmptyDict
    /\ mt5_lock = NoHolder
    /\ call = [t \in Threads |-> Idle]
    /\ worker = <<>>
    /\ callsLeft = calls
    /\ pollsLeft = polls
    /\ spawnsLeft = spawns
    /\ chan = [s \in Symbols |-> <<>>]
    /\ lastres = [s \in Symbols |-> <<>>]
    /\ excess = [s \in Symbols |-> 0]
    /\ scen = 0
    /\ trade = TradeIdle
    /\ activity = NoActivity
    /\ mt5 = NoTerminal
    /\ streams = NoStreams

InitSession(calls, polls, spawns) ==
    /\ SessionFresh(calls, polls, spawns)
    /\ RegistryFresh(0)
    /\ vol = NoVolume
    /\ order_stops = NoStops

\* request thread t1 makes up to MaxCalls calls, t2 up to MaxCalls2 beside it
Init == InitSession([t \in Threads |-> IF t = "t1" THEN MaxCalls ELSE MaxCalls2],
                    MaxPolls, MaxSpawn)

Next ==
    \/ \E t \in Threads : ConnectBegin(t)
    \/ \E t \in Threads : ConnectLock(t)
    \/ \E t \in Threads : ConnectBody(t)
    \/ \E t \in Threads : ConnectReturn(t)
    \/ \E t \in Threads : StartBegin(t)
    \/ \E t \in Threads : StartCheck(t)
    \/ \E t \in Threads : StartAppend(t)
    \/ \E t \in Threads : StartSetSubs(t)
    \/ \E t \in Threads : StartSubmit(t)
    \/ \E t \in Threads : StartAssign(t)
    \/ \E t \in Threads : StopBegin(t)
    \/ \E t \in Threads : StopCheck(t)
    \/ \E t \in Threads : StopRemove(t)
    \/ \E t \in Threads : StopEmpty(t)
    \/ \E t \in Threads : StopDelThread(t)
    \/ \E t \in Threads : DisconnectBegin(t)
    \/ \E t \in Threads : DisconnectLock(t)
    \/ \E t \in Threads : DisconnectFlags(t)
    \/ \E t \in Threads : DisconnectClear(t)
    \/ \E t \in Threads : DisconnectShutdown(t)
    \/ \E t \in Threads : DisconnectJoin(t)
    \/ \E t \in Threads : DisconnectReturn(t)
    \/ \E w \in WorkerIds : WorkerStart(w)
    \/ \E w \in WorkerIds : WorkerCheck(w)
    \/ \E w \in WorkerIds : WorkerGetPrice(w)
    \/ \E w \in WorkerIds : WorkerGetPriceLock(w)
    \/ \E w \in WorkerIds : WorkerGetPriceCall(w)
    \/ \E w \in WorkerIds : WorkerResult(w)
    \/ \E w \in WorkerIds : WorkerCleanupThreads(w)
    \/ \E w \in WorkerIds : WorkerCleanupSubs(w)

Spec == Init /\ [][Next]_vars

\* the same session explored deep enough into one worker's polling for the
\* consecutive-error counter to reach its limit
BreakerInit == InitSession([t \in Threads |-> IF t = "t1" THEN BreakerCalls ELSE 0],
                           BreakerPolls, BreakerSpawn)
\* a thread of the pool that can take a step is scheduled: a worker that left
\* its loop runs its two cleanup statements
BreakerSpec ==
    /\ BreakerInit
    /\ [][Next]_vars
    /\ WF_vars(\E w \in WorkerIds : WorkerCleanupThreads(w))
    /\ WF_vars(\E w \in WorkerIds : WorkerCleanupSubs(w))

\* one caller: request thread t1 makes up to SoloCalls calls one after the
\* other while the workers run
SoloCalls == 3
SoloPolls == 1
SoloSpawn == 2
SoloInit == InitSession([t \in Threads |-> IF t = "t1" THEN SoloCalls ELSE 0],
                        SoloPolls, SoloSpawn)
SoloSpec == SoloInit /\ [][Next]_vars

\* the order operations of the session beside connect and disconnect
TradeCalls == 2
TradeInit == InitSession([t \in Threads |-> IF t = "t1" THEN TradeCalls ELSE 0], 0, 0)
TradeNext ==
    \/ \E t \in Threads : ConnectBegin(t)
    \/ \E t \in Threads : ConnectLock(t)
    \/ \E t \in Threads : ConnectBody(t)
    \/ \E t \in Threads : ConnectReturn(t)
    \/ \E t \in Threads : DisconnectBegin(t)
    \/ \E t \in Threads : DisconnectLock(t)
    \/ \E t \in Threads : DisconnectFlags(t)
    \/ \E t \in Threads : DisconnectClear(t)
    \/ \E t \in Threads : DisconnectShutdown(t)
    \/ \E t \in Threads : DisconnectJoin(t)
    \/ \E t \in Threads : DisconnectReturn(t)
    \/ PlaceTradeBegin
    \/ CloseTradeBegin
    \/ QueryBegin
    \/ QueryCall
    \/ TradeLock
    \/ PlaceTradeValidate
    \/ CloseTradeValidate
    \/ PlaceTradeSend
    \/ CloseTradeSend
    \/ TradeSendRaises
    \/ TradeReturn
TradeSpec == TradeInit /\ [][TradeNext]_vars

\* the registry with its threads
RegistryInit ==
    /\ SessionFresh([t \in Threads |-> 0], 0, 0)
    /\ RegistryFresh(RegCalls)
    /\ vol = NoVolume
    /\ order_stops = NoStops
RegistryNext ==
    \/ \E r \in RegThreads : GetConnectorBegin(r)
    \/ \E r \in RegThreads : GetConnectorLock(r)
    \/ \E r \in RegThreads : GetConnectorCheck(r)
    \/ \E r \in RegThreads : GetConnectorCreate(r)
    \/ \E r \in RegThreads : GetConnectorReturn(r)
    \/ \E r \in RegThreads : UseConnector(r)
    \/ \E r \in RegThreads : DropConnector(r)
    \/ \E r \in RegThreads : RemoveConnectorBegin(r)
    \/ \E r \in RegThreads : RemoveConnectorLock(r)
    \/ \E r \in RegThreads : RemoveConnectorDisconnect(r)
    \/ \E r \in RegThreads : RemoveConnectorDelete(r)
    \/ \E r \in RegThreads : CleanupBegin(r)
    \/ \E r \in RegThreads : CleanupLock(r)
    \/ \E r \in RegThreads : CleanupScan(r)
    \/ \E r \in RegThreads : CleanupVisit(r)
    \/ \E r \in RegThreads : CleanupReturn(r)
    \/ Tick
RegistrySpec == RegistryInit /\ [][RegistryNext]_vars

\* the volumes of the order requests
VolumeInit ==
    /\ SessionFresh([t \in Threads |-> 0], 0, 0)
    /\ RegistryFresh(0)
    /\ vol \in {i \in VolumeInputs : i.volume_min <= i.volume_max} \cup VolumeExamples
    /\ order_stops = NoStops
VolumeNext == PlaceTradeVolume \/ CloseTradeVolume
VolumeSpec == VolumeInit /\ [][VolumeNext]_vars

\* the registry while terminal calls of its connectors are in flight
BlockingNext ==
    \/ RegistryNext
    \/ \E r \in RegThreads : TerminalCallBegin(r)
    \/ \E r \in RegThreads : TerminalCallEnd(r)
BlockingSpec == RegistryInit /\ [][BlockingNext]_vars

\* one client that subscribes, unsubscribes and subscribes again
RestartInit == InitSession([t \in Threads |-> IF t = "t1" THEN RestartCalls ELSE 0],
                           RestartPolls, RestartSpawn)
RestartSpec == RestartInit /\ [][Next]_vars

\* the executor with one symbol more than it has threads; its threads run
\* whenever they can, the requests come as they please
PoolInit == InitSession([t \in Threads |-> 0], 0, 0)
PoolNext ==
    \/ \E s \in PoolSymbols : PoolStart(s)
    \/ \E s \in PoolSymbols : PoolStop(s)
    \/ \E s \in PoolSymbols : PoolRun(s)
    \/ \E s \in PoolSymbols : PoolPoll(s)
    \/ \E s \in PoolSymbols : PoolExit(s)
PoolSpec ==
    /\ PoolInit
    /\ [][PoolNext]_vars
    /\ \A s \in PoolSymbols : /\ WF_vars(PoolRun(s))
                               /\ WF_vars(PoolPoll(s))
                               /\ WF_vars(PoolExit(s))

\* the connectors of two accounts at the terminal, with the evictions
IsolationInit ==
    /\ SessionFresh([t \in Threads |-> 0], 0, 0)
    /\ RegistryFresh(IsolationCalls)
    /\ vol = NoVolume
    /\ order_stops = NoStops
IsolationNext ==
    \/ \E r \in RegThreads : GetConnectorBegin(r)
    \/ \E r \in RegThreads : GetConnectorLock(r)
    \/ \E r \in RegThreads : GetConnectorCheck(r)
    \/ \E r \in RegThreads : GetConnectorCreate(r)
    \/ \E r \in RegThreads : GetConnectorReturn(r)
    \/ \E r \in RegThreads : DropConnector(r)
    \/ \E r \in RegThreads : SessionConnectLock(r)
    \/ \E r \in RegThreads : SessionConnectInitialize(r)
    \/ \E r \in RegThreads : SessionConnectLogin(r)
    \/ \E r \in RegThreads : SessionDisconnectLock(r)
    \/ \E r \in RegThreads : SessionDisconnectShutdown(r)
    \/ \E r \in RegThreads : TerminalCallBegin(r)
    \/ \E r \in RegThreads : TerminalCallEnd(r)
    \/ \E r \in RegThreads : RemoveConnectorBegin(r)
    \/ \E r \in RegThreads : RemoveConnectorLock(r)
    \/ \E r \in RegThreads : RemoveConnectorShutdown(r)
    \/ \E r \in RegThreads : RemoveConnectorDelete(r)
    \/ \E r \in RegThreads : CleanupBegin(r)
    \/ \E r \in RegThreads : CleanupLock(r)
    \/ \E r \in RegThreads : CleanupScan(r)
    \/ \E r \in RegThreads : CleanupVisitShutdown(r)
    \/ \E r \in RegThreads : CleanupReturn(r)
    \/ Tick
IsolationSpec == IsolationInit /\ [][IsolationNext]_vars

\* the session's streams and callers beside a request thread that calls the
\* get operations
ExclusionCalls == 2
ExclusionPolls == 1
ExclusionSpawn == 2
ExclusionInit == InitSession([t \in Threads |-> IF t = "t1" THEN ExclusionCalls ELSE 0],
                             ExclusionPolls, ExclusionSpawn)
ExclusionNext ==
    \/ Next
    \/ QueryBegin
    \/ TradeLock
    \/ QueryCall
    \/ TradeReturn
ExclusionSpec == ExclusionInit /\ [][ExclusionNext]_vars

\* the stops of the order requests
StopsInit == InitSession([t \in Threads |-> 0], 0, 0)
StopsNext == PlaceTradeStops
StopsSpec == StopsInit /\ [][StopsNext]_vars

\* the threads entering the operations of one session while time passes
ActivityInit == InitSession([t \in Threads |-> 0], 0, 0)
ActivityNext ==
    \/ \E t \in Threads : UpdateActivityClock(t)
    \/ \E t \in Threads : UpdateActivityStore(t)
    \/ \E t \in Threads : OperationReturns(t)
    \/ Tick
ActivitySpec == ActivityInit /\ [][ActivityNext]_vars

-----------------------------------------------------------------------------
(* Workers as the claims see them.                                         *)

\* the worker is in its loop (or waits in the executor's queue to enter it)
InLoop(w) == worker[w].pc \in {"queued", "check", "get_price", "gp_lock", "gp_call", "result"}
\* the worker passed its loop check and is polling the price
Polling(w) == worker[w].pc \in {"get_price", "gp_lock", "gp_call", "result"}
\* the worker is in its loop and its next loop check lets it continue
Stable(w) ==
    /\ InLoop(w)
    /\ LoopCondition(worker[w].sym)
    /\ ~(worker[w].pc = "result" /\ ~worker[w].res.ok
         /\ BreakerTrips(worker[w].error_count + 1))
\* no call is in progress and every worker that has to leave its loop has left
Settled == AllIdle /\ \A w \in WorkerIds : Exited(w) \/ Stable(w)
HasSubscribers(s) == s \in DOMAIN active_subscriptions /\ active_subscriptions[s] # <<>>
NoBreakerTripped == \A w \in WorkerIds : ~worker[w].tripped

(* C1: on a connected session whose executor is running, once no subscribe  *)
(* or unsubscribe call is in progress and every worker has made its next    *)
(* loop check, a symbol has a live poll worker iff it has a subscriber.     *)
C1_WorkerIffSubscribers ==
    (Settled /\ connected /\ ~executor_shutdown) =>
        \A s \in Symbols :
            (\E w \in WorkerIds : worker[w].sym = s /\ Stable(w)) <=> HasSubscribers(s)

(* C2: at no time two workers are polling the same symbol of the session.   *)
C2_AtMostOneWorker ==
    \A s \in Symbols :
        Cardinality({w \in WorkerIds : worker[w].sym = s /\ Polling(w)}) <= 1

(* C3: on a connected session, after subscribers c1 and c2 subscribed to    *)
(* the symbol one after the other exactly one worker runs; after c1         *)
(* unsubscribed it still runs; after c2 unsubscribed too no worker of the   *)
(* symbol passes its next loop check.                                       *)
C3_TwoSubscriberScenario ==
    NoBreakerTripped =>
        /\ scen \in {3, 4} =>
             Cardinality({w \in WorkerIds : worker[w].sym = ScenSym /\ InLoop(w)}) = 1
        /\ scen = 5 => \A w \in WorkerIds : worker[w].sym = ScenSym => ~Stable(w)

(* C4: for every stream of a symbol the number of quotes emitted equals the *)
(* number of runs of equal consecutive (bid, ask) among the successful      *)
(* get_price results, and no two quotes emitted one after the other carry   *)
(* the same (bid, ask).                                                     *)
C4_Dedup ==
    \A s \in Symbols :
        /\ excess[s] = 0
        /\ Len(chan[s]) = 2 => chan[s][1] # chan[s][2]

(* C5: a worker whose last 5 get_price calls failed has left its loop       *)
(* through the circuit breaker, its cleanup removes the symbol from         *)
(* price_threads and from active_subscriptions, and it terminates.          *)
C5_BreakerExits ==
    \A w \in WorkerIds :
        worker[w].consec >= 5 =>
            worker[w].tripped /\ worker[w].pc \in {"cleanup1", "cleanup2", "done"}
C5_CleanupRemoves ==
    \A w \in WorkerIds :
        worker[w].tripped =>
            /\ (worker[w].pc = "cleanup1" /\ worker'[w].pc # "cleanup1")
                 => worker'[w].pc = "cleanup2" /\ worker[w].sym \notin DOMAIN price_threads'
            /\ (worker[w].pc = "cleanup2" /\ worker'[w].pc # "cleanup2")
                 => worker'[w].pc = "done" /\ worker[w].sym \notin DOMAIN active_subscriptions'
C5_TrippedPending == \E w \in WorkerIds : worker[w].consec >= 5 /\ ~Exited(w)
C5_TrippedAllExited == \A w \in WorkerIds : worker[w].consec >= 5 => Exited(w)
C5_CircuitBreaker ==
    /\ []C5_BreakerExits
    /\ [][C5_CleanupRemoves]_vars
    /\ (C5_TrippedPending ~> C5_TrippedAllExited)
C5_Witness ==
    \E w \in WorkerIds :
        /\ worker[w].consec >= 5
        /\ Exited(w)
        /\ worker[w].sym \notin DOMAIN price_threads
        /\ worker[w].sym \notin DOMAIN active_subscriptions

(* C6: a worker leaves its loop through the circuit breaker only if its     *)
(* last 5 get_price calls in a row failed.                                  *)
C6_ConsecutiveOnly ==
    \A w \in WorkerIds : worker[w].tripped => worker[w].consec >= 5

-----------------------------------------------------------------------------
(* The retry loops as the claims see them.                                 *)

SentModes(tr) == [i \in 1..Len(tr.sent) |-> tr.sent[i].mode]
\* the terminal class of the specification
TerminalClass == {TRADE_RETCODE_NO_MONEY, TRADE_RETCODE_TRADE_DISABLED,
                  TRADE_RETCODE_MARKET_CLOSED, TRADE_RETCODE_INVALID_VOLUME,
                  TRADE_RETCODE_CONNECTION, TRADE_RETCODE_ONLY_REAL}
\* the call ended after order_send answered every attempt with a failure
\* outside the terminal class
ExhaustedBy(op) ==
    /\ trade.op = op /\ trade.pc = "done" /\ trade.sent # <<>>
    /\ \A i \in 1..Len(trade.sent) :
         trade.sent[i].retcode \notin TerminalClass \cup {TRADE_RETCODE_DONE}
    /\ trade.result.code = trade.sent[Len(trade.sent)].retcode
\* the modes whose test info.filling_mode & mode_constant is non-zero
FlaggedNames(mask) ==
    {PlaceFillingModes[i].name : i \in {j \in 1..Len(PlaceFillingModes) :
                                          Flagged(mask, PlaceFillingModes[j])}}
RECURSIVE WithoutRepeats(_)
WithoutRepeats(names) ==
    IF names = <<>> THEN <<>>
    ELSE LET front == WithoutRepeats(SubSeq(names, 1, Len(names) - 1))
             last == names[Len(names)]
         IN IF \E i \in 1..Len(front) : front[i] = last THEN front
            ELSE Append(front, last)
\* B when it is flagged (it is A) or is IOC
PreferredFirst(A, B) == IF B = A \/ B = "IOC" THEN <<B>> ELSE <<>>

LastAttemptOn(op, retcodes) ==
    trade.op = op =>
        \A i \in 1..Len(trade.sent) :
            trade.sent[i].retcode \in retcodes =>
                /\ i = Len(trade.sent)
                /\ trade.pc = "done"
                /\ trade.result.code = trade.sent[i].retcode
                /\ trade.result.mode = trade.sent[i].mode

(* C8: in place_trade a submission answered with a retcode of the terminal  *)
(* class is the last order_send of the call, and its error is returned.     *)
C8_PlaceStopsAtTerminal ==
    /\ LastAttemptOn("place", TerminalClass)
    /\ \A i \in 1..Len(trade.sent) :
         (trade.op = "place" /\ trade.sent[i].retcode \in TerminalClass) => ~trade.result.ok
C8_Witness ==
    /\ trade.op = "place" /\ trade.pc = "done"
    /\ Len(trade.cands) > 1
    /\ Len(trade.sent) = 1
    /\ trade.sent[1].retcode = TRADE_RETCODE_TRADE_DISABLED
    /\ trade.result = TradeFailed(TRADE_RETCODE_TRADE_DISABLED, trade.cands[1].name)

(* C9: in close_trade the first success and the first failure of the        *)
(* terminal class (the class of place_trade) are the last order_send of the *)
(* call.                                                                    *)
C9_CloseStopsAtTerminal ==
    LastAttemptOn("close", TerminalClass \cup {TRADE_RETCODE_DONE})

-----------------------------------------------------------------------------
(* The registry as the claims see it.                                      *)

(* C10: no two connectors that are live (created and not removed from the   *)
(* registry) belong to one account, what the registry holds is a live       *)
(* connector of that account, and a live connector handed out by            *)
(* get_connector is the one the registry holds.                             *)
C10_SingleInstance ==
    /\ \A i, j \in LiveInstances : inst[i].acc = inst[j].acc => i = j
    /\ \A a \in DOMAIN connectors :
         connectors[a] \in LiveInstances /\ inst[connectors[a]].acc = a
    /\ \A r \in RegThreads :
         (rcall[r].op = "holding" /\ rcall[r].ref \in LiveInstances) =>
             /\ rcall[r].acc \in DOMAIN connectors
             /\ connectors[rcall[r].acc] = rcall[r].ref
\* two threads were handed the same live connector of one account
C10_Witness ==
    /\ rcall["r1"].op = "holding" /\ rcall["r2"].op = "holding"
    /\ rcall["r1"].acc = rcall["r2"].acc
    /\ rcall["r1"].ref = rcall["r2"].ref
    /\ rcall["r1"].ref \in LiveInstances


-----------------------------------------------------------------------------
(* The registry lock and the sweep as the claims see them.                 *)

\* thread r is at a connector.disconnect() that waits for the connector's
\* mt5_lock, held by a terminal call in flight
WaitsForSession(r) ==
    \/ /\ rcall[r].op = "remove" /\ rcall[r].pc = "check"
       /\ rcall[r].acc \in DOMAIN connectors
       /\ inst[connectors[rcall[r].acc]].locked
    \/ /\ rcall[r].op = "cleanup" /\ rcall[r].pc = "visit" /\ rcall[r].todo # <<>>
       /\ Head(rcall[r].todo) \in DOMAIN connectors
       /\ Inactive(inst[connectors[Head(rcall[r].todo)]], rcall[r].time)
       /\ inst[connectors[Head(rcall[r].todo)]].locked

(* C11: connectors_lock is never held by a thread that waits for the       *)
(* mt5_lock of a connector, so a terminal call in flight on one account     *)
(* never keeps get_connector of another account from completing.            *)
C11_RegistryLockNeverWaits ==
    \A r \in RegThreads : connectors_lock = <<"thread", r>> => ~WaitsForSession(r)

\* what the sweeps in progress found at the connectors they visited
Visits == UNION {{rcall[r].seen[k] : k \in 1..Len(rcall[r].seen)} : r \in RegThreads}
Age(v) == v.time - v.found.last_activity
\* the sweep disconnected the connector and deleted it from the registry
Removed(v) == ~v.registered /\ ~v.left.connected
Kept(v) == v.registered /\ v.left = v.found

(* C12: cleanup_inactive_connectors disconnects and removes every connector *)
(* it finds connected, without subscriptions and with last_activity older   *)
(* than the idle threshold, and every connector it finds not connected; it  *)
(* leaves a connected connector whose last_activity is within the threshold.*)
C12_SweepRemovesIdle ==
    \A v \in Visits :
        /\ (v.found.connected /\ ~v.found.subs /\ Age(v) > IdleThreshold) => Removed(v)
        /\ ~v.found.connected => Removed(v)
        /\ (v.found.connected /\ Age(v) <= IdleThreshold) => Kept(v)
\* a sweep removed an idle connected connector and kept one exactly the
\* threshold old
C12_Witness ==
    /\ \E v \in Visits : /\ v.found.connected /\ ~v.found.subs
                          /\ Age(v) > IdleThreshold /\ Removed(v)
    /\ \E v \in Visits : /\ v.found.connected /\ ~v.found.subs
                          /\ Age(v) = IdleThreshold /\ Kept(v)

(* C13: cleanup_inactive_connectors never removes a connector it finds with *)
(* an active subscription, connected or not.                                *)
C13_SubscribedNeverEvicted ==
    \A v \in Visits : v.found.subs => v.registered

-----------------------------------------------------------------------------
(* The submitted volume as the claims see it.                              *)

Submitted == vol.op \in {"place", "close"}
OnStepGrid(x) == x % vol.volume_step = 0

(* C14: the volume submitted by place_trade and by close_trade lies in      *)
(* [volume_min, volume_max].                                                *)
C14_VolumeInRange ==
    Submitted => vol.volume_min <= vol.submitted /\ vol.submitted <= vol.volume_max
\* a volume above the maximum and one below the minimum were brought inside
C14_Witness ==
    /\ Submitted
    /\ vol.requested > vol.volume_max
    /\ ~OnStepGrid(vol.volume_max)
    /\ vol.submitted = vol.volume_max

(* C15: the submitted volume is volume_min plus an integer multiple of      *)
(* volume_step.                                                             *)
C15_VolumeOnGridFromMin ==
    Submitted => (vol.submitted - vol.volume_min) % vol.volume_step = 0

-----------------------------------------------------------------------------
(* connect and disconnect as the claims see them.                          *)

ConnectFailures == ConnectOutcomes \ {"connected"}

(* C17: when connect returns a failure the connected flag is false (the     *)
(* session has one caller of connect and disconnect).                       *)
C17_FailedConnectDisconnected ==
    \A t \in Threads :
        (call[t].op = "connect" /\ call[t].pc \in ConnectFailures) => ~connected

\* the session after disconnect: flags, pool and maps
SessionDown ==
    /\ ~connected
    /\ shutdown_event
    /\ executor_shutdown
    /\ active_subscriptions = EmptyDict
    /\ price_threads = EmptyDict
    /\ \A w \in WorkerIds : Exited(w)
DisconnectReturns(t) == call[t].op = "disconnect" /\ call'[t].op = "idle"
DisconnectRuns == \E t \in Threads : call[t].op = "disconnect"

TornDown == executor_shutdown /\ ~connected
\* a request holds mt5_lock and executes terminal calls
InTerminalCall == trade.pc \in {"validate", "sending"}

(* C19: no request executes a terminal call while the terminal connection   *)
(* is shut down by a disconnect that no successful connect has followed.    *)
C19_NoCallOnTornDown == ~(InTerminalCall /\ TornDown)

(* C20: get_symbols, get_symbol_info, get_price, get_positions,             *)
(* get_account_info, place_trade and close_trade called while connected is  *)
(* false fail with code 1004, execute no terminal call and send no order.   *)
C20_NotConnected ==
    (trade.op \in QueryOps \cup {"place", "close"} /\ ~trade.saw) =>
        /\ trade.pc = "done"
        /\ trade.result = TradeFailed(1004, "-")
        /\ trade.calls = 0
        /\ trade.sent = <<>>
        /\ mt5_lock # TradeHolder
\* get_positions was refused on a session that disconnect had shut down
C20_Witness ==
    /\ trade.op = "get_positions" /\ trade.pc = "done"
    /\ ~trade.saw /\ TornDown
    /\ trade.result.code = 1004
-----------------------------------------------------------------------------
(* last_activity as the claims see it.                                     *)

(* C21: every public operation has set last_activity to the time of its     *)
(* entry (or a later operation's) once its update_activity is done, whatever *)
(* its outcome, and last_activity never decreases.                          *)
C21_ActivityOnEntry ==
    [][/\ \A t \in Threads :
            activity'.caller[t].pc = "body" =>
                activity'.last_activity >= activity'.caller[t].time
       /\ activity'.last_activity >= activity.last_activity]_vars
-----------------------------------------------------------------------------
(* The session lock as the claims see it.                                  *)

\* the request threads and workers that are between the first and the last
\* terminal call of an operation: connect from initialize, disconnect up to
\* mt5.shutdown(), get_price of a worker, a get operation or an order
ThreadsInTerminal ==
    {ThreadHolder(t) : t \in {u \in Threads :
        \/ At(u, "connect", "body")
        \/ call[u].op = "disconnect" /\ call[u].pc \in {"flags", "clear", "shutdown", "join"}}}
WorkersInTerminal == {WorkerHolder(w) : w \in {x \in WorkerIds : worker[x].pc = "gp_call"}}
RequestsInTerminal == IF InTerminalCall THEN {TradeHolder} ELSE {}
InTerminal == ThreadsInTerminal \cup WorkersInTerminal \cup RequestsInTerminal

(* C22: at most one request thread or worker of the session is executing    *)
(* terminal calls at any time, and it holds mt5_lock.                       *)
C22_MutualExclusion ==
    /\ Cardinality(InTerminal) <= 1
    /\ \A h \in InTerminal : mt5_lock = h
\* a worker waits for the lock while a get operation holds it in its
\* terminal call
C22_Witness ==
    /\ \E w \in WorkerIds : worker[w].pc = "gp_lock"
    /\ InTerminal = {TradeHolder}
    /\ mt5_lock = TradeHolder

-----------------------------------------------------------------------------
(* The exception handlers as the claims see them.                          *)

\* the code an operation returns from its `except Exception` handler
ExceptionCode(op) ==
    CASE op = "place" -> 1012
      [] op = "close" -> 1014
      [] op = "get_symbols" -> 1005
      [] op = "get_symbol_info" -> 1008
      [] op = "get_price" -> 1010
      [] op = "get_positions" -> 1014
      [] op = "get_account_info" -> 1015
\* a terminal call of the request's operation raised
Raised ==
    /\ trade.pc = "done" /\ trade.calls > 0
    /\ trade.result.code = ExceptionCode(trade.op)
\* a terminal call of connect or disconnect raised in thread t
RaisedIn(t) == call[t].op \in {"connect", "disconnect"} /\ call[t].pc = "exception"

(* C23: an operation in which a terminal call raised comes back with a      *)
(* failure and its error code, not holding mt5_lock; the lock is free       *)
(* whenever no operation is within its terminal calls, so that a connect    *)
(* waiting for it can go on.                                                *)
C23_NoFailureEscapes ==
    /\ Raised => ~trade.result.ok /\ mt5_lock # TradeHolder
    /\ \A t \in Threads : RaisedIn(t) => mt5_lock # ThreadHolder(t)
    /\ InTerminal = {} => LockFree(mt5_lock)
\* order_send raised in place_trade after a first attempt, and a connect
\* begun afterwards has taken the lock
C23_Witness ==
    /\ Raised /\ trade.op = "place" /\ trade.sent # <<>>
    /\ \E t \in Threads : At(t, "connect", "body")

-----------------------------------------------------------------------------
(* The end of disconnect as the claims see it.                             *)

\* disconnect is in executor.shutdown(wait=True), holding mt5_lock
JoiningPool(t) == At(t, "disconnect", "join") /\ mt5_lock = ThreadHolder(t)
\* the worker passed the connected test of get_price and waits for mt5_lock
AwaitsLock(w) == worker[w].pc = "gp_lock"

(* C24: a disconnect that waits for the pool while it holds mt5_lock never  *)
(* waits for a worker that itself waits for mt5_lock: some worker can take  *)
(* a step until all have finished, and disconnect returns.                  *)
C24_DisconnectTerminates ==
    \A t \in Threads : JoiningPool(t) => \A w \in WorkerIds : ~AwaitsLock(w)

-----------------------------------------------------------------------------
(* The outcome of the retry loops as the claims see it.                    *)

\* the attempts of the call that order_send answered with TRADE_RETCODE_DONE
Successes == {i \in 1..Len(trade.sent) : trade.sent[i].retcode = TRADE_RETCODE_DONE}

(* C25: in place_trade and close_trade at most one order_send of a call     *)
(* succeeds, it is the last of the call, and the call returns success with  *)
(* the mode of that attempt.                                                *)
C25_StopsAtFirstSuccess ==
    trade.op \in {"place", "close"} =>
        /\ Cardinality(Successes) <= 1
        /\ \A i \in Successes :
             /\ i = Len(trade.sent)
             /\ trade.pc = "done"
             /\ trade.result = [ok |-> TRUE, code |-> TRADE_RETCODE_DONE,
                                mode |-> trade.sent[i].mode]
\* close_trade with the candidates IOC and Return was rejected with IOC and
\* succeeded with Return
C25_Witness ==
    /\ trade.op = "close" /\ trade.pc = "done"
    /\ SentModes(trade) = <<"IOC", "Return">>
    /\ Successes = {2}
    /\ trade.result.ok /\ trade.result.mode = "Return"

(* C26: a call of place_trade submits at most one order per filling mode,   *)
(* so at most three, and when the loop ends without a success the call      *)
(* returns the failure with the retcode and the mode of its last attempt.   *)
C26_BoundedRetry ==
    trade.op = "place" =>
        /\ Len(trade.sent) <= Len(PlaceFillingModes)
        /\ \A i, j \in 1..Len(trade.sent) :
             trade.sent[i].mode = trade.sent[j].mode => i = j
        /\ (trade.pc = "done" /\ trade.sent # <<>> /\ Successes = {} /\ ~Raised) =>
               trade.result = TradeFailed(trade.sent[Len(trade.sent)].retcode,
                                          trade.sent[Len(trade.sent)].mode)
\* RETURN, requested and flagged, and IOC were tried, each rejected, and the
\* rejection of IOC was returned
C26_Witness ==
    /\ trade.op = "place" /\ trade.pc = "done"
    /\ SentModes(trade) = <<"RETURN", "IOC">>
    /\ Successes = {}
    /\ trade.result = TradeFailed(TRADE_RETCODE_REJECT, "IOC")

\* the failures that are neither the invalid filling type nor of the
\* terminal class
OtherClass == Retcodes \ (TerminalClass \cup {TRADE_RETCODE_DONE, TRADE_RETCODE_INVALID_FILL})

(* C27: in place_trade a submission answered with a failure that is neither *)
(* the invalid filling type nor of the terminal class (a requote, a         *)
(* rejection) is the last order_send of the call, and its error is returned.*)
C27_OtherIsTerminal == LastAttemptOn("place", OtherClass)

-----------------------------------------------------------------------------
(* The volume of a close as the claims see it.                             *)

(* C28: the volume close_trade submits never exceeds the volume of the      *)
(* position: a larger requested volume is brought down to it, and an        *)
(* omitted volume is the position's.                                        *)
C28_CloseWithinPosition ==
    vol.op = "close" => vol.submitted <= vol.position

-----------------------------------------------------------------------------
(* The stops of an order as the claims see them.                           *)

\* the instrument's minimum stop distance: stops_level points
MinStopDistance == order_stops.stops_level * PointUnits
Sign == IF order_stops.order_type = "BUY" THEN 1 ELSE 0 - 1
\* how far below (BUY) or above (SELL) the price the stop-loss sent is, and
\* how far above (BUY) or below (SELL) the take-profit
StopDistanceUsed == Sign * (order_stops.price - order_stops.sl)
ProfitDistanceUsed == Sign * (order_stops.tp - order_stops.price)

(* C29: the stop-loss place_trade sends is below the ask for BUY and above  *)
(* the bid for SELL, the take-profit on the other side, and each is at      *)
(* least the instrument's minimum stop distance (stops_level points) away   *)
(* from the price, a smaller distance of the caller being raised to it     *)
(* (the side is asked of distances of a point or more).                     *)
C29_StopsFloored ==
    /\ order_stops.sends_sl =>
          /\ order_stops.sl_distance >= PointUnits => StopDistanceUsed > 0
          /\ StopDistanceUsed >= MinStopDistance
    /\ order_stops.sends_tp =>
          /\ order_stops.tp_distance >= PointUnits => ProfitDistanceUsed > 0
          /\ ProfitDistanceUsed >= MinStopDistance

-----------------------------------------------------------------------------
(* The validations of place_trade as the claims see them.                  *)

\* the session was connected at the test, the symbol was selected, is known
\* and tradable, the account is known, may trade and has the funds, there is
\* a tick and the side is BUY or SELL
AllValidationsPassed ==
    /\ trade.saw
    /\ trade.env.selected
    /\ trade.env.info = "tradable"
    /\ trade.env.account_info = "account"
    /\ trade.env.trade_allowed
    /\ trade.env.funds
    /\ trade.env.tick
    /\ Upper(trade.env.order_type) \in {"BUY", "SELL"}

(* C30: place_trade reaches order_send only when every validation passed;  *)
(* a call in which one did not pass ends with a failure and its code and    *)
(* has sent no order.                                                       *)
C30_NoOrderUnlessValid ==
    trade.op = "place" =>
        /\ (trade.pc = "sending" \/ trade.sent # <<>>) => AllValidationsPassed
        /\ (trade.pc = "done" /\ ~AllValidationsPassed) =>
              /\ ~trade.result.ok
              /\ trade.result.code \in PlaceRejections \cup {1004}
              /\ trade.sent = <<>>
\* a call was refused for the account's trading permission, everything
\* before it having passed
C30_Witness ==
    /\ trade.op = "place" /\ trade.pc = "done"
    /\ trade.env.selected /\ trade.env.info = "tradable"
    /\ trade.env.account_info = "account" /\ ~trade.env.trade_allowed
    /\ trade.result = TradeFailed(10027, "-")
    /\ trade.sent = <<>>

-----------------------------------------------------------------------------
(* The terminal as the claims see it.                                      *)

\* the connectors a thread is making a terminal call on
CallingOn == {rcall[r].ref : r \in {q \in RegThreads : rcall[q].op = "holding"
                                                       /\ rcall[q].pc = "calling"}}

(* C31: while a connector is connected, a terminal call it makes runs on an  *)
(* initialized terminal logged in as the connector's account, whatever the   *)
(* connectors of other accounts connect, disconnect or are evicted.          *)
C31_SessionsIsolated ==
    \A i \in CallingOn :
        inst[i].connected => mt5.initialized /\ mt5.login = inst[i].acc

-----------------------------------------------------------------------------
(* The executor as the claims see it.                                      *)

Streamed(s) == streams[s].subscribed /\ streams[s].registered

(* C32: on a connected session every symbol that is subscribed gets its poll *)
(* loop running while the subscription lasts, however many symbols are        *)
(* subscribed at once, the other symbols' streams going on.                   *)
C32_EveryStreamPolls ==
    \A s \in PoolSymbols :
        Streamed(s) ~> (streams[s].task = "running" \/ ~streams[s].subscribed)

-----------------------------------------------------------------------------
(* The exit of a worker as the claims see it.                              *)

\* the worker deletes the entry of price_threads in this step
DeletesWorkerEntry(w) ==
    /\ worker[w].pc = "cleanup1" /\ worker'[w].pc = "cleanup2"
    /\ worker[w].sym \in DOMAIN price_threads

\* the worker deletes the subscribers of its symbol in this step
DeletesSubscribers(w) ==
    /\ worker[w].pc = "cleanup2" /\ worker'[w].pc = "done"
    /\ HasSubscribers(worker[w].sym)

\* a stream of the worker's symbol was started after the worker's own: its
\* start_price_stream has stored the subscriber, or has submitted its worker
NewerStream(w) ==
    \/ \E v \in WorkerIds : v > w /\ worker[v].sym = worker[w].sym
    \/ \E t \in Threads : At(t, "start", "submit") /\ call[t].sym = worker[w].sym

\* the worker has polled: it was in its loop, so that what ended the loop on
\* a connected session, short of the breaker, is a stop_price_stream
HasPolled(w) == worker[w].last_price # None \/ worker[w].consec > 0
ToldToStop(w) == HasPolled(w) /\ connected /\ ~shutdown_event /\ ~worker[w].tripped

(* C33: on a connected session the exit cleanup of a worker that was told to *)
(* stop deletes no worker entry but the one of its own future, and no        *)
(* subscribers of a stream of the symbol started after its own.              *)
C33_NoSubscriptionLost ==
    [][\A w \in WorkerIds :
          ToldToStop(w) =>
              /\ DeletesWorkerEntry(w) => price_threads[worker[w].sym] = w
              /\ DeletesSubscribers(w) => ~NewerStream(w)]_vars

====
